---- MODULE Spec2Model ----
(***************************************************************************)
(* A model of the parsing core of bolt (src/bolt/parse.py): the scope      *)
(* tables kept in stream.data, the statement / target / branch / function  *)
(* parsers that read and write them, the layered expression grammar built  *)
(* from BinaryParser and UnaryParser, and the if/elif/else lowering pass.  *)
(*                                                                         *)
(* The token stream is modelled as a sequence of already separated tokens  *)
(* (strings) and an index; a name is a token of Names, a number literal a  *)
(* token of Numbers.                                                       *)
(***************************************************************************)
EXTENDS Integers, Sequences, FiniteSets, TLC

VARIABLES streams, stack, status, ev, input, output

vars == <<streams, stack, status, ev, input, output>>

(***************************************************************************)
(* Bounds of the model.                                                    *)
(***************************************************************************)
NumNames == 2
MaxOps == 3
MaxCommands == 4
MaxDepth == 2
MaxRootCommands == 3

NameList == <<"a", "b", "c", "d">>
Names == {NameList[i] : i \in 1..NumNames}

FunctionName == "f"

(* the tokens IDENTIFIER_PATTERN matches *)
IdentifierTokens == {NameList[i] : i \in 1..Len(NameList)} \cup {FunctionName}

NumberList == <<"0", "1", "2", "3", "4", "5", "6">>
Numbers == {NumberList[i] : i \in 1..Len(NumberList)}

(***************************************************************************)
(* Small helpers on sequences and on dicts (functions with a finite        *)
(* domain of names).                                                       *)
(***************************************************************************)
RECURSIVE ReverseSeq(_)
ReverseSeq(s) == IF s = <<>> THEN <<>> ELSE Append(ReverseSeq(Tail(s)), Head(s))

Last(s) == s[Len(s)]

Front(s) == SubSeq(s, 1, Len(s) - 1)

EmptyDict == [n \in {} |-> "local"]

DictUpdate(d, e) == [n \in (DOMAIN d) \cup (DOMAIN e) |-> IF n \in DOMAIN e THEN e[n] ELSE d[n]]

DictRemove(d, keys) == [n \in (DOMAIN d) \ keys |-> d[n]]

DictSetDefault(d, k, v) == IF k \in DOMAIN d THEN d ELSE DictUpdate(d, [n \in {k} |-> v])

DictRestrict(d, keys) == [n \in (DOMAIN d) \cap keys |-> d[n]]

(***************************************************************************)
(* AST nodes: every node is a record of the same shape.                    *)
(***************************************************************************)
Node(type, value, args) == [type |-> type, value |-> value, args |-> args]

NoNode == Node("none", "", <<>>)

AstIdentifier(value) == Node("Identifier", value, <<>>)

AstValue(value) == Node("Value", value, <<>>)

AstExpressionBinary(operator, left, right) == Node("BinaryExpr", operator, <<left, right>>)

AstExpressionUnary(operator, value) == Node("UnaryExpr", operator, <<value>>)

AstAttribute(value, name) == Node("Attribute", name, <<value>>)

(* AstSlice() with no start, stop and step *)
AstSlice == Node("Slice", "", <<>>)

AstLookup(value, arguments) == Node("Lookup", "", <<value>> \o arguments)

AstKeyword(name, value) == Node("Keyword", name, <<value>>)

AstUnpack(type, value) == Node("Unpack", type, <<value>>)

AstCall(value, arguments) == Node("Call", "", <<value>> \o arguments)

(***************************************************************************)
(* The result of running a parser on (tokens, index): on success the node  *)
(* and the index after it; on failure the error and the index it is        *)
(* reported at.                                                            *)
(***************************************************************************)
Success(node, i) == [ok |-> TRUE, node |-> node, i |-> i, err |-> ""]

Failure(err, i) == [ok |-> FALSE, node |-> NoNode, i |-> i, err |-> err]

TokenAt(toks, i) == IF i >= 1 /\ i <= Len(toks) THEN toks[i] ELSE "eof"

InvalidSyntax == "InvalidSyntax"

UndefinedIdentifier == "UndefinedIdentifier"

(***************************************************************************)
(* get_bolt_parsers: the expression layers, lowest binding first.          *)
(***************************************************************************)
Levels ==
  << [name |-> "disjunction", kind |-> "binary", operators |-> {"or"}, right_associative |-> FALSE],
     [name |-> "conjunction", kind |-> "binary", operators |-> {"and"}, right_associative |-> FALSE],
     [name |-> "inversion", kind |-> "unary", operators |-> {"not"}, right_associative |-> FALSE],
     [name |-> "comparison", kind |-> "binary",
      operators |-> {"==", "!=", "<=", "<", ">=", ">", "not in", "in", "is not", "is"},
      right_associative |-> FALSE],
     [name |-> "bitwise_or", kind |-> "binary", operators |-> {"|"}, right_associative |-> FALSE],
     [name |-> "bitwise_xor", kind |-> "binary", operators |-> {"^"}, right_associative |-> FALSE],
     [name |-> "bitwise_and", kind |-> "binary", operators |-> {"&"}, right_associative |-> FALSE],
     [name |-> "shift_expr", kind |-> "binary", operators |-> {"<<", ">>"}, right_associative |-> FALSE],
     [name |-> "sum", kind |-> "binary", operators |-> {"+", "-"}, right_associative |-> FALSE],
     [name |-> "term", kind |-> "binary", operators |-> {"*", "//", "/", "%"}, right_associative |-> FALSE],
     [name |-> "factor", kind |-> "unary", operators |-> {"+", "-"}, right_associative |-> FALSE],
     [name |-> "power", kind |-> "binary", operators |-> {"**"}, right_associative |-> TRUE] >>

(***************************************************************************)
(* parse_identifier: the token must be an identifier; it resolves iff its  *)
(* value is in the stream's identifiers.  No table is written.             *)
(***************************************************************************)
ParseIdentifierUnchecked(S, toks, i) ==
  LET token == TokenAt(toks, i)
  IN IF token \notin IdentifierTokens THEN Failure(InvalidSyntax, i)
     ELSE Success(AstIdentifier(token), i + 1)

parse_identifier(S, toks, i) ==
  LET token == TokenAt(toks, i)
  IN IF token \notin IdentifierTokens THEN Failure(InvalidSyntax, i)
     ELSE IF token \notin S.identifiers THEN Failure(UndefinedIdentifier, i)
     ELSE Success(AstIdentifier(token), i + 1)

(***************************************************************************)
(* LiteralParser, restricted to number literals.                           *)
(***************************************************************************)
LiteralParser(S, toks, i) ==
  LET token == TokenAt(toks, i)
  IN IF token \in Numbers THEN Success(AstValue(token), i + 1)
     ELSE Failure(InvalidSyntax, i)

(***************************************************************************)
(* bolt:atom = AlternativeParser([bolt:identifier, bolt:literal]).         *)
(***************************************************************************)
Atom(S, toks, i) ==
  LET id == parse_identifier(S, toks, i)
  IN IF id.ok THEN id
     ELSE LET lit == LiteralParser(S, toks, i)
          IN IF lit.ok THEN lit ELSE id

(***************************************************************************)
(* BinaryParser: the fold of the collected operands and operators.         *)
(***************************************************************************)
RECURSIVE FoldZip(_, _, _, _)
FoldZip(operations, nodes, result, right_associative) ==
  IF operations = <<>> \/ nodes = <<>> THEN result
  ELSE LET op == Head(operations)
           node == Head(nodes)
           left == IF right_associative THEN node ELSE result
           right == IF right_associative THEN result ELSE node
       IN FoldZip(Tail(operations), Tail(nodes),
                  AstExpressionBinary(op, left, right), right_associative)

FoldBinaryAlwaysLeft(nodes, operations, right_associative) ==
  FoldZip(operations, Tail(nodes), Head(nodes), FALSE)

FoldBinary(nodes, operations, right_associative) ==
  IF right_associative
  THEN FoldZip(ReverseSeq(operations), ReverseSeq(Front(nodes)), Last(nodes), TRUE)
  ELSE FoldZip(operations, Tail(nodes), Head(nodes), FALSE)

RECURSIVE ParseLevel(_, _, _, _)
RECURSIVE Collect(_, _, _, _, _, _)
RECURSIVE Postfix(_, _, _, _)
RECURSIVE ArgumentLoop(_, _, _, _, _, _)

(* stream.collect("operator") with the operand parsed after each operator *)
Collect(l, S, toks, i, nodes, operations) ==
  IF TokenAt(toks, i) \in Levels[l].operators
  THEN LET r == ParseLevel(l + 1, S, toks, i + 1)
       IN IF ~r.ok THEN [ok |-> FALSE, nodes |-> nodes, operations |-> operations,
                         i |-> r.i, err |-> r.err]
          ELSE Collect(l, S, toks, r.i, Append(nodes, r.node),
                       Append(operations, TokenAt(toks, i)))
  ELSE [ok |-> TRUE, nodes |-> nodes, operations |-> operations, i |-> i, err |-> ""]

BinaryParser(l, S, toks, i) ==
  LET first == ParseLevel(l + 1, S, toks, i)
  IN IF ~first.ok THEN first
     ELSE LET c == Collect(l, S, toks, first.i, <<first.node>>, <<>>)
          IN IF ~c.ok THEN Failure(c.err, c.i)
             ELSE Success(FoldBinary(c.nodes, c.operations, Levels[l].right_associative), c.i)

UnaryParser(l, S, toks, i) ==
  IF TokenAt(toks, i) \in Levels[l].operators
  THEN LET r == ParseLevel(l, S, toks, i + 1)
       IN IF ~r.ok THEN r
          ELSE Success(AstExpressionUnary(TokenAt(toks, i), r.node), r.i)
  ELSE ParseLevel(l + 1, S, toks, i)

(* KeywordParser: name, `=`, then the value *)
KeywordValue(name, r) == IF ~r.ok THEN r ELSE Success(AstKeyword(name, r.node), r.i)

KeywordParser(S, toks, i) ==
  IF TokenAt(toks, i) \notin Names THEN Failure(InvalidSyntax, i)
  ELSE IF TokenAt(toks, i + 1) # "=" THEN Failure(InvalidSyntax, i + 1)
  ELSE KeywordValue(TokenAt(toks, i), ParseLevel(1, S, toks, i + 2))

UnpackValue(type, r) == IF ~r.ok THEN r ELSE Success(AstUnpack(type, r.node), r.i)

(* UnpackParser: the prefix `*` or `**`, then the value *)
UnpackParser(S, toks, i) ==
  IF TokenAt(toks, i) \notin {"*", "**"} THEN Failure(InvalidSyntax, i)
  ELSE UnpackValue(IF TokenAt(toks, i) = "**" THEN "dict" ELSE "list",
                   ParseLevel(1, S, toks, i + 1))

(* every alternative failed: the error that got furthest is raised *)
FurthestArgument(k, u, e) ==
  IF e.ok THEN e
  ELSE IF k.i >= u.i /\ k.i >= e.i THEN k
  ELSE IF u.i >= e.i THEN u ELSE e

AfterUnpack(S, toks, i, k, u) ==
  IF u.ok THEN u ELSE FurthestArgument(k, u, ParseLevel(1, S, toks, i))

AfterKeyword(S, toks, i, k) ==
  IF k.ok THEN k ELSE AfterUnpack(S, toks, i, k, UnpackParser(S, toks, i))

(* bolt:call_argument = AlternativeParser([keyword, unpack, expression]) *)
CallArgument(S, toks, i) == AfterKeyword(S, toks, i, KeywordParser(S, toks, i))

PositionalAfterKeyword == "Positional argument not allowed after keyword arguments."

ListUnpackAfterKeyword == "List unpacking not allowed after keyword arguments."

ArgumentOrderUnchecked(argument, allow_positional) == ""

(* the error raised for `argument`, "" when it is accepted *)
ArgumentOrderError(argument, allow_positional) ==
  IF argument.type = "Keyword" THEN ""
  ELSE IF argument.type = "Unpack"
  THEN IF argument.value # "dict" /\ ~allow_positional THEN ListUnpackAfterKeyword ELSE ""
  ELSE IF ~allow_positional THEN PositionalAfterKeyword ELSE ""

(* allow_positional after `argument` was accepted *)
AllowPositional(argument, allow_positional) ==
  /\ allow_positional
  /\ argument.type # "Keyword"
  /\ ~(argument.type = "Unpack" /\ argument.value = "dict")

ArgumentsDone(ok, arguments, i, err) ==
  [ok |-> ok, arguments |-> arguments, i |-> i, err |-> err]

(* the body of the loop once bolt:call_argument answered `a` *)
ArgumentParsed(S, toks, i, close, arguments, allow_positional, a) ==
  IF ~a.ok THEN ArgumentsDone(FALSE, arguments, a.i, a.err)
  ELSE IF ArgumentOrderError(a.node, allow_positional) # ""
  THEN ArgumentsDone(FALSE, arguments, i, ArgumentOrderError(a.node, allow_positional))
  ELSE IF TokenAt(toks, a.i) = ","
  THEN ArgumentLoop(S, toks, a.i + 1, close, Append(arguments, a.node),
                    AllowPositional(a.node, allow_positional))
  ELSE IF TokenAt(toks, a.i) = close
  THEN ArgumentsDone(TRUE, Append(arguments, a.node), a.i + 1, "")
  ELSE ArgumentsDone(FALSE, arguments, a.i, InvalidSyntax)

(* `for _ in stream.peek_until(close)` over the arguments of a call *)
ArgumentLoop(S, toks, i, close, arguments, allow_positional) ==
  IF TokenAt(toks, i) = close THEN ArgumentsDone(TRUE, arguments, i + 1, "")
  ELSE ArgumentParsed(S, toks, i, close, arguments, allow_positional,
                      CallArgument(S, toks, i))

CallParsed(S, toks, node, c) ==
  IF ~c.ok THEN Failure(c.err, c.i)
  ELSE Postfix(S, toks, c.i, AstCall(node, c.arguments))

LookupParsed(S, toks, node, r) ==
  IF ~r.ok THEN r
  ELSE IF TokenAt(toks, r.i) # "]" THEN Failure(InvalidSyntax, r.i)
  ELSE Postfix(S, toks, r.i + 1, AstLookup(node, <<r.node>>))

(* PrimaryParser: the atom and its postfix chain of .name, [expr] and      *)
(* (arguments); peek_until(close) ends the argument loop before its first  *)
(* turn when the closing token comes next, and a lookup without arguments  *)
(* gets one empty slice                                                    *)
Postfix(S, toks, i, node) ==
  IF TokenAt(toks, i) = "("
  THEN CallParsed(S, toks, node, ArgumentLoop(S, toks, i + 1, ")", <<>>, TRUE))
  ELSE IF TokenAt(toks, i) = "."
  THEN IF TokenAt(toks, i + 1) \in Names
       THEN Postfix(S, toks, i + 2, AstAttribute(node, TokenAt(toks, i + 1)))
       ELSE Failure(InvalidSyntax, i + 1)
  ELSE IF TokenAt(toks, i) = "["
  THEN IF TokenAt(toks, i + 1) = "]"
       THEN Postfix(S, toks, i + 2, AstLookup(node, <<AstSlice>>))
       ELSE LookupParsed(S, toks, node, ParseLevel(1, S, toks, i + 1))
  ELSE Success(node, i)

PrimaryParser(S, toks, i) ==
  LET a == Atom(S, toks, i)
  IN IF ~a.ok THEN a ELSE Postfix(S, toks, a.i, a.node)

ParseLevel(l, S, toks, i) ==
  IF l > Len(Levels) THEN PrimaryParser(S, toks, i)
  ELSE IF Levels[l].kind = "binary" THEN BinaryParser(l, S, toks, i)
  ELSE UnaryParser(l, S, toks, i)

(* bolt:expression = delegate("bolt:disjunction") *)
Expression(S, toks, i) == ParseLevel(1, S, toks, i)

(***************************************************************************)
(* IfElseLoweringParser.  A command is [identifier, arguments]; an         *)
(* argument is [tag, commands]: an opaque node (a condition, a parsed      *)
(* body) carries its tag and no commands, the root built by the lowering   *)
(* carries tag 0 and its command list.                                     *)
(***************************************************************************)
IF_ID == "if:condition:body"

ELIF_ID == "elif:condition:body"

ELSE_ID == "else:body"

OTHER_ID == "say:message"

AstCommand(identifier, arguments) == [identifier |-> identifier, arguments |-> arguments]

Leaf(tag) == [tag |-> tag, commands |-> <<>>]

AstRoot(commands) == [tag |-> 0, commands |-> commands]

RogueMessage == "Conditional branch must be part of an if statement."

(* the inner loop `for command in commands` that collects the chain: the   *)
(* index of the first command after position j that is neither elif nor    *)
(* else, or Len + 1 when the iterator is exhausted                         *)
RECURSIVE ChainEnd(_, _)
ChainEnd(commands, j) ==
  IF j > Len(commands) THEN j
  ELSE IF commands[j].identifier \notin {ELIF_ID, ELSE_ID} THEN j
  ELSE ChainEnd(commands, j + 1)

(* `for stmt in reversed(elif_chain)`: wrap each link around `last` *)
RECURSIVE NestChain(_, _)
NestChain(reversed_chain, last) ==
  IF reversed_chain = <<>> THEN last
  ELSE LET stmt == AstCommand(IF_ID, Head(reversed_chain).arguments)
           root == AstRoot(<<stmt>> \o last)
       IN NestChain(Tail(reversed_chain), <<AstCommand(ELSE_ID, <<root>>)>>)

RECURSIVE NestChainInOrder(_, _)
NestChainInOrder(chain, last) ==
  IF chain = <<>> THEN last
  ELSE LET stmt == AstCommand(IF_ID, Head(chain).arguments)
           root == AstRoot(<<stmt>> \o last)
       IN NestChainInOrder(Tail(chain), <<AstCommand(ELSE_ID, <<root>>)>>)

LowerChainUnnested(elif_chain) == AstCommand(ELIF_ID, <<AstRoot(elif_chain)>>)

LowerChainForward(elif_chain) ==
  LET has_else == Last(elif_chain).identifier = ELSE_ID
      last == IF has_else THEN <<Last(elif_chain)>> ELSE <<>>
      chain == IF has_else THEN Front(elif_chain) ELSE elif_chain
  IN NestChainInOrder(chain, last)[1]

LowerChain(elif_chain) ==
  LET has_else == Last(elif_chain).identifier = ELSE_ID
      last == IF has_else THEN <<Last(elif_chain)>> ELSE <<>>
      chain == IF has_else THEN Front(elif_chain) ELSE elif_chain
  IN NestChain(ReverseSeq(chain), last)[1]

IsRogueAlways(command, previous) == FALSE

(* the check made on each command the outer loop visits *)
IsRogue(command, previous) ==
  /\ command.identifier \in {ELIF_ID, ELSE_ID}
  /\ previous \notin {IF_ID, ELIF_ID}

RECURSIVE LoweringLoop(_, _, _, _, _)
LoweringLoop(commands, i, previous, result, changed) ==
  IF i > Len(commands)
  THEN [ok |-> TRUE, err |-> "", commands |-> IF changed THEN result ELSE commands]
  ELSE LET command == commands[i]
       IN IF IsRogue(command, previous)
          THEN [ok |-> FALSE, err |-> RogueMessage, commands |-> <<>>]
          ELSE IF command.identifier = ELIF_ID
          THEN LET j == ChainEnd(commands, i + 1)
                   elif_chain == SubSeq(commands, i, j - 1)
                   lowered == Append(result, LowerChain(elif_chain))
               IN IF j > Len(commands)
                  THEN [ok |-> TRUE, err |-> "", commands |-> lowered]
                  ELSE LoweringLoop(commands, j + 1, commands[j].identifier,
                                    Append(lowered, commands[j]), TRUE)
          ELSE LoweringLoop(commands, i + 1, command.identifier,
                            Append(result, command), changed)

IfElseLoweringParser(commands) == LoweringLoop(commands, 1, "", <<>>, FALSE)

(***************************************************************************)
(* Specification SpecBinary: bolt:expression applied to operands           *)
(* 0, 1, .., k joined by k operators.                                      *)
(***************************************************************************)
BinaryOperators == {"or", "and", "==", "|", "^", "&", "<<", "+", "-", "*", "/", "**"}

OperandToken(p) == NumberList[p + 1]

ExpressionTokens(ops) ==
  [p \in 1..(2 * Len(ops) + 1) |->
     IF p % 2 = 1 THEN OperandToken((p - 1) \div 2) ELSE ops[p \div 2]]

OperatorSeqs == UNION {[1..k -> BinaryOperators] : k \in 0..MaxOps}

NoStream == [identifiers |-> {}, pending_identifiers |-> {},
             identifiers_storage |-> EmptyDict, pending_identifiers_storage |-> EmptyDict,
             branch_scope |-> {}, function |-> FALSE]

NoTarget == [ok |-> FALSE, err |-> "", note |-> FALSE, touched |-> FALSE, rebinds |-> <<>>]

Event(op, ok, err, alt, targets, text) ==
  [op |-> op, ok |-> ok, err |-> err, alt |-> alt, targets |-> targets, text |-> text,
   kind |-> "", augmented |-> NoTarget]

NoEvent == Event("none", TRUE, "", 0, {}, <<>>)

NotRun == [done |-> FALSE]

ScopeIdle ==
  /\ streams = <<>>
  /\ stack = <<>>
  /\ status = "idle"
  /\ ev = NoEvent

InitBinary ==
  /\ ScopeIdle
  /\ input \in OperatorSeqs
  /\ output = NotRun

ParseExpression ==
  /\ output = NotRun
  /\ LET r == Expression(NoStream, ExpressionTokens(input), 1)
     IN output' = [done |-> TRUE, ok |-> r.ok, node |-> r.node, i |-> r.i]
  /\ UNCHANGED <<streams, stack, status, ev, input>>

NextBinary == ParseExpression

SpecBinary == InitBinary /\ [][NextBinary]_vars

(***************************************************************************)
(* Specification SpecCall: bolt:expression applied to a call whose         *)
(* arguments are of the given kinds, in order: a positional expression, a  *)
(* keyword argument, a `*` unpack or a `**` unpack.                        *)
(***************************************************************************)
MaxArguments == 4

ArgumentKinds == {"positional", "keyword", "list", "dict"}

ArgumentTokens(kind) ==
  IF kind = "positional" THEN <<"1">>
  ELSE IF kind = "keyword" THEN <<NameList[1], "=", "1">>
  ELSE IF kind = "list" THEN <<"*", "1">>
  ELSE <<"**", "1">>

RECURSIVE JoinArguments(_)
JoinArguments(kinds) ==
  IF kinds = <<>> THEN <<>>
  ELSE IF Len(kinds) = 1 THEN ArgumentTokens(kinds[1])
  ELSE ArgumentTokens(kinds[1]) \o <<",">> \o JoinArguments(Tail(kinds))

CallTokens(kinds) == <<"0", "(">> \o JoinArguments(kinds) \o <<")">>

ArgumentKindSeqs == UNION {[1..k -> ArgumentKinds] : k \in 0..MaxArguments}

InitCall ==
  /\ ScopeIdle
  /\ input \in ArgumentKindSeqs
  /\ output = NotRun

ParseCall ==
  /\ output = NotRun
  /\ LET r == Expression(NoStream, CallTokens(input), 1)
     IN output' = [done |-> TRUE, ok |-> r.ok, node |-> r.node, i |-> r.i, err |-> r.err]
  /\ UNCHANGED <<streams, stack, status, ev, input>>

NextCall == ParseCall

SpecCall == InitCall /\ [][NextCall]_vars

(***************************************************************************)
(* Specification SpecLower: IfElseLoweringParser applied to the command    *)
(* list of a parsed root.  The command at position p carries the condition *)
(* tag 10p+1 (if, elif) and the body tag 10p+2.                            *)
(***************************************************************************)
CommandIds == {IF_ID, ELIF_ID, ELSE_ID, OTHER_ID}

MakeCommand(id, p) ==
  IF id \in {IF_ID, ELIF_ID} THEN AstCommand(id, <<Leaf(10 * p + 1), Leaf(10 * p + 2)>>)
  ELSE AstCommand(id, <<Leaf(10 * p + 2)>>)

CommandLists ==
  UNION {{[p \in 1..k |-> MakeCommand(ids[p], p)] : ids \in [1..k -> CommandIds]} : k \in 0..MaxCommands}

InitLower ==
  /\ ScopeIdle
  /\ input \in CommandLists
  /\ output = NotRun

LowerRoot ==
  /\ output = NotRun
  /\ LET r == IfElseLoweringParser(input)
     IN output' = [done |-> TRUE, ok |-> r.ok, err |-> r.err, commands |-> r.commands]
  /\ UNCHANGED <<streams, stack, status, ev, input>>

NextLower == LowerRoot

SpecLower == InitLower /\ [][NextLower]_vars

(***************************************************************************)
(* Specification SpecLowerTwice: the lowering applied to the commands of a *)
(* root, then once more to the commands of the root it returned.           *)
(***************************************************************************)
Relowered == "again" \in DOMAIN output

LowerAgain ==
  /\ output # NotRun
  /\ output.ok
  /\ ~Relowered
  /\ LET r == IfElseLoweringParser(output.commands)
     IN output' = [done |-> TRUE, ok |-> TRUE, err |-> "", commands |-> output.commands,
                   again |-> [ok |-> r.ok, err |-> r.err, commands |-> r.commands]]
  /\ UNCHANGED <<streams, stack, status, ev, input>>

NextLowerTwice == LowerRoot \/ LowerAgain

SpecLowerTwice == InitLower /\ [][NextLowerTwice]_vars

(***************************************************************************)
(* The scope tables of a stream (stream.data).                             *)
(***************************************************************************)
NewStream == NoStream

(* identifiers |= pending; pending.clear(); storage.update(pending_storage); *)
(* pending_storage.clear()                                                   *)
FlushKeepingPending(S) ==
  [S EXCEPT !.identifiers = @ \cup S.pending_identifiers,
            !.identifiers_storage = DictUpdate(@, S.pending_identifiers_storage)]

FlushPending(S) ==
  [S EXCEPT !.identifiers = @ \cup S.pending_identifiers,
            !.pending_identifiers = {},
            !.identifiers_storage = DictUpdate(@, S.pending_identifiers_storage),
            !.pending_identifiers_storage = EmptyDict]

ClearPending(S) ==
  [S EXCEPT !.pending_identifiers = {}, !.pending_identifiers_storage = EmptyDict]

(***************************************************************************)
(* AssignmentTargetParser.  The result carries the stream as the parser    *)
(* left it (the pending tables are written before a later name can fail),  *)
(* the names of the targets and whether the UndefinedIdentifier carries    *)
(* the "Use 'global X' or 'nonlocal X' ..." note.                          *)
(***************************************************************************)
TargetResult(ok, S, i, names, rebinds, err, note) ==
  [ok |-> ok, S |-> S, i |-> i, names |-> names, rebinds |-> rebinds, err |-> err, note |-> note]

RECURSIVE TargetLoop(_, _, _, _, _, _, _)
TargetLoop(allow_undefined_identifiers, allow_multiple, S, toks, i, names, rebinds) ==
  LET token == TokenAt(toks, i)
  IN IF token \notin Names
     THEN TargetResult(FALSE, S, i, names, rebinds, InvalidSyntax, FALSE)
     ELSE LET is_defined == token \in S.identifiers
              with_storage == token \in DOMAIN S.identifiers_storage
              rebind == is_defined /\ with_storage
              S1 == IF allow_undefined_identifiers
                    THEN [S EXCEPT !.pending_identifiers = @ \cup {token},
                                   !.pending_identifiers_storage =
                                      IF with_storage THEN @
                                      ELSE DictUpdate(@, [n \in {token} |-> "local"])]
                    ELSE S
          IN IF ~allow_undefined_identifiers /\ ~rebind
             THEN TargetResult(FALSE, S, i, names, rebinds, UndefinedIdentifier,
                               is_defined /\ ~with_storage)
             ELSE IF allow_multiple /\ TokenAt(toks, i + 1) = ","
             THEN TargetLoop(allow_undefined_identifiers, allow_multiple, S1, toks, i + 2,
                             Append(names, token), Append(rebinds, rebind))
             ELSE TargetResult(TRUE, S1, i + 1, Append(names, token),
                               Append(rebinds, rebind), "", FALSE)

AugmentedTargetAcceptsDefined(allow_undefined_identifiers, allow_multiple, S, toks, i) ==
  LET token == TokenAt(toks, i)
  IN IF token \in S.identifiers
     THEN TargetResult(TRUE, S, i + 1, <<token>>, <<TRUE>>, "", FALSE)
     ELSE TargetLoop(allow_undefined_identifiers, allow_multiple, S, toks, i, <<>>, <<>>)

AssignmentTargetParser(allow_undefined_identifiers, allow_multiple, S, toks, i) ==
  TargetLoop(allow_undefined_identifiers, allow_multiple, S, toks, i, <<>>, <<>>)

(***************************************************************************)
(* parse_statement.                                                        *)
(***************************************************************************)
AssignmentOperators ==
  {"=", "+=", "-=", "*=", "//=", "/=", "%=", "&=", "|=", "^=", "<<=", ">>=", "**="}

TrailingInput == "Trailing input following final expression."

(* check_final_expression: nothing but the end of the line may follow *)
check_final_expression(toks, i) == TokenAt(toks, i) = "eof"

AltResult(ok, S, i, err, kind, targets, target) ==
  [ok |-> ok, S |-> S, i |-> i, err |-> err, kind |-> kind, targets |-> targets,
   target |-> target]

(* what the target parser of an alternative answered: whether it accepted, *)
(* its error and note, and whether it wrote to the tables                  *)
TargetAnswer(t, S0) ==
  [ok |-> t.ok, err |-> t.err, note |-> t.note, touched |-> t.S # S0, rebinds |-> t.rebinds]

(* lines 556-559 and 599: commit of the pending identifiers, then the      *)
(* final-expression check                                                  *)
AfterValue(t, e, toks, answer) ==
  IF ~e.ok THEN AltResult(FALSE, t.S, e.i, e.err, "none", {}, answer)
  ELSE IF ~check_final_expression(toks, e.i)
  THEN AltResult(FALSE, FlushPending(t.S), e.i, TrailingInput, "none", {}, answer)
  ELSE AltResult(TRUE, FlushPending(t.S), e.i, "", "Assignment",
                 t.S.pending_identifiers, answer)

(* the operator after the target, then the value *)
AfterTarget(pattern, t, toks, answer) ==
  IF ~t.ok THEN AltResult(FALSE, t.S, t.i, t.err, "none", {}, answer)
  ELSE IF TokenAt(toks, t.i) \notin pattern
  THEN AltResult(FALSE, t.S, t.i, InvalidSyntax, "none", {}, answer)
  ELSE AfterValue(t, Expression(t.S, toks, t.i + 1), toks, answer)

TargetDone(pattern, S0, t, toks) == AfterTarget(pattern, t, toks, TargetAnswer(t, S0))

(* one alternative with a target parser: target, operator, expression,     *)
(* commit of the pending identifiers, final-expression check               *)
TargetAlternative(parser, S, toks) ==
  IF parser = "bolt:assignment_target"
  THEN TargetDone({"="}, ClearPending(S),
                  AssignmentTargetParser(TRUE, TRUE, ClearPending(S), toks, 1), toks)
  ELSE TargetDone(AssignmentOperators, ClearPending(S),
                  AssignmentTargetParser(FALSE, FALSE, ClearPending(S), toks, 1), toks)

(* the value assigned to an attribute or item *)
AfterItemValue(S0, e, toks) ==
  IF ~e.ok THEN AltResult(FALSE, S0, e.i, e.err, "none", {}, NoTarget)
  ELSE IF ~check_final_expression(toks, e.i)
  THEN AltResult(FALSE, S0, e.i, TrailingInput, "none", {}, NoTarget)
  ELSE AltResult(TRUE, S0, e.i, "", "Assignment", {}, NoTarget)

AfterExpression(S0, n, toks) ==
  IF ~n.ok THEN AltResult(FALSE, S0, n.i, n.err, "none", {}, NoTarget)
  ELSE IF n.node.type \in {"Attribute", "Lookup"} /\ TokenAt(toks, n.i) \in AssignmentOperators
  THEN AfterItemValue(S0, Expression(S0, toks, n.i + 1), toks)
  ELSE IF ~check_final_expression(toks, n.i)
  THEN AltResult(FALSE, S0, n.i, TrailingInput, "none", {}, NoTarget)
  ELSE AltResult(TRUE, S0, n.i, "", n.node.type, {}, NoTarget)

(* the bolt:expression alternative: an attribute or item followed by an    *)
(* assignment operator becomes an assignment                               *)
ExpressionAlternative(S, toks) ==
  AfterExpression(ClearPending(S), Expression(ClearPending(S), toks, 1), toks)

(* stream.choose over the three alternatives: the tables written by a      *)
(* failed alternative stay written, only the index is rolled back; when    *)
(* all fail the error that got furthest is raised                          *)
StatementResult(ok, S, alt, err, kind, targets, augmented) ==
  [ok |-> ok, S |-> S, alt |-> alt, err |-> err, kind |-> kind, targets |-> targets,
   augmented |-> augmented]

Furthest(r1, r2, r3) ==
  IF r1.i >= r2.i /\ r1.i >= r3.i THEN r1
  ELSE IF r2.i >= r3.i THEN r2 ELSE r3

ThirdAlternative(r1, r2, r3) ==
  IF r3.ok THEN StatementResult(TRUE, r3.S, 3, "", r3.kind, r3.targets, r1.target)
  ELSE StatementResult(FALSE, r3.S, 0, Furthest(r1, r2, r3).err, "none", {}, r1.target)

SecondAlternative(r1, r2, toks) ==
  IF r2.ok THEN StatementResult(TRUE, r2.S, 2, "", r2.kind, r2.targets, r1.target)
  ELSE ThirdAlternative(r1, r2, ExpressionAlternative(r2.S, toks))

FirstAlternative(r1, toks) ==
  IF r1.ok THEN StatementResult(TRUE, r1.S, 1, "", r1.kind, r1.targets, r1.target)
  ELSE SecondAlternative(r1, TargetAlternative("bolt:assignment_target", r1.S, toks), toks)

parse_statement(S, toks) ==
  FirstAlternative(TargetAlternative("bolt:augmented_assignment_target", S, toks), toks)

(***************************************************************************)
(* BranchScopeManager: the part before the inner parser runs and the       *)
(* finally clause.  `branch_scope` of the result is the local variable,    *)
(* stream.data["branch_scope"] is written at exit only.                    *)
(***************************************************************************)
BranchEnterKeepStorage(mask_flag, update_before, S) ==
  LET mask == IF S.branch_scope = {} THEN {} ELSE S.identifiers \ S.branch_scope
      mask_storage == DictRestrict(S.identifiers_storage, mask)
      S1 == IF mask_flag THEN [S EXCEPT !.identifiers = @ \ mask] ELSE S
  IN [S |-> S1, mask |-> mask, mask_storage |-> mask_storage,
      branch_scope |-> IF update_before THEN S1.identifiers ELSE S.branch_scope]

BranchEnter(mask_flag, update_before, S) ==
  LET mask == IF S.branch_scope = {} THEN {} ELSE S.identifiers \ S.branch_scope
      mask_storage == DictRestrict(S.identifiers_storage, mask)
      S1 == IF mask_flag
            THEN [S EXCEPT !.identifiers = @ \ mask,
                           !.identifiers_storage = DictRemove(@, DOMAIN mask_storage)]
            ELSE S
  IN [S |-> S1, mask |-> mask, mask_storage |-> mask_storage,
      branch_scope |-> IF update_before THEN S1.identifiers ELSE S.branch_scope]

BranchExitNoRestore(mask_flag, update_after, mask, mask_storage, branch_scope, S) ==
  [S EXCEPT !.branch_scope = IF update_after THEN S.identifiers ELSE branch_scope]

BranchExit(mask_flag, update_after, mask, mask_storage, branch_scope, S) ==
  LET bs == IF update_after THEN S.identifiers ELSE branch_scope
      S1 == IF mask_flag
            THEN [S EXCEPT !.identifiers = @ \cup mask,
                           !.identifiers_storage = DictUpdate(@, mask_storage)]
            ELSE S
  IN [S1 EXCEPT !.branch_scope = bs]

(***************************************************************************)
(* parse_function_signature: `name(arg [= default], ...)`.  args is the    *)
(* sequence of argument names, defaults the sequence of default tokens     *)
(* ("" for an argument without default).                                   *)
(***************************************************************************)
ProvidedWithOwnName(scoped_identifiers, args, k) ==
  scoped_identifiers \cup {args[j] : j \in 1..k}

(* scoped_identifiers | {arg.name for arg in arguments}, before the k-th   *)
(* argument is appended                                                    *)
ProvidedIdentifiers(scoped_identifiers, args, k) ==
  scoped_identifiers \cup {args[j] : j \in 1..(k - 1)}

NoDefault == [ok |-> TRUE, err |-> ""]

RECURSIVE SignatureDefaults(_, _, _, _, _, _)

(* the k-th argument once its default answered `r`: `provided` is the      *)
(* stream inside `with stream.provide(identifiers=...)`, S the stream      *)
(* after it                                                                *)
DefaultParsed(S, scoped_identifiers, args, defaults, k, log, provided, r) ==
  LET entry == [name |-> args[k], default |-> defaults[k],
                visible |-> provided.identifiers, ok |-> r.ok,
                after |-> S.identifiers]
  IN IF ~r.ok THEN [ok |-> FALSE, err |-> r.err, log |-> Append(log, entry)]
     ELSE SignatureDefaults(S, scoped_identifiers, args, defaults, k + 1, Append(log, entry))

DefaultProvided(S, scoped_identifiers, args, defaults, k, log, provided) ==
  DefaultParsed(S, scoped_identifiers, args, defaults, k, log, provided,
                IF defaults[k] = "" THEN NoDefault
                ELSE Expression(provided, <<defaults[k]>>, 1))

(* the loop over the arguments from the k-th on; the log holds what each   *)
(* default was parsed with                                                 *)
SignatureDefaults(S, scoped_identifiers, args, defaults, k, log) ==
  IF k > Len(args) THEN [ok |-> TRUE, err |-> "", log |-> log]
  ELSE DefaultProvided(S, scoped_identifiers, args, defaults, k, log,
                       [S EXCEPT !.identifiers =
                          ProvidedIdentifiers(scoped_identifiers, args, k)])

SignatureDefaultsOk(S, scoped_identifiers, args, defaults, k) ==
  SignatureDefaults(S, scoped_identifiers, args, defaults, k, <<>>).ok

parse_function_signature(S, name, args, defaults) ==
  LET scoped_identifiers == S.identifiers \cup {name}
  IN IF ~SignatureDefaultsOk(S, scoped_identifiers, args, defaults, 1)
     THEN [ok |-> FALSE, S |-> S, err |-> UndefinedIdentifier]
     ELSE [ok |-> TRUE, err |-> "",
           S |-> [S EXCEPT !.identifiers = @ \cup {name},
                           !.pending_identifiers = @ \cup {args[j] : j \in 1..Len(args)}]]

(***************************************************************************)
(* parse_function_root: the snapshot kept in AstFunctionRoot and the       *)
(* stream it leaves behind.                                                *)
(***************************************************************************)
FunctionRootSnapshotKeepStorage(S) ==
  [S EXCEPT !.identifiers = S.identifiers \cup S.pending_identifiers,
            !.pending_identifiers = {},
            !.pending_identifiers_storage = EmptyDict,
            !.branch_scope = {}]

FunctionRootSnapshot(S) ==
  [S EXCEPT !.identifiers = S.identifiers \cup S.pending_identifiers,
            !.pending_identifiers = {},
            !.identifiers_storage = EmptyDict,
            !.pending_identifiers_storage = EmptyDict,
            !.branch_scope = {}]

FunctionRootFlushed(S) == FlushPending(S)

parse_function_root(S) == [S EXCEPT !.pending_identifiers = {}]

(***************************************************************************)
(* FunctionRootBacktracker: the stream the deferred body is parsed with.   *)
(***************************************************************************)
FunctionStreamDefinitionSite(snapshot, identifiers, args) ==
  [snapshot EXCEPT !.function = TRUE,
                   !.identifiers_storage = DictUpdate(@, [n \in args |-> "local"])]

FunctionStream(snapshot, identifiers, args) ==
  [snapshot EXCEPT !.identifiers = @ \cup identifiers,
                   !.function = TRUE,
                   !.identifiers_storage = DictUpdate(@, [n \in args |-> "local"])]

(***************************************************************************)
(* ImportStatementHandler and GlobalNonlocalHandler, applied to the names  *)
(* of the parsed command.                                                  *)
(***************************************************************************)
RECURSIVE BindImported(_, _)
BindImported(S, names) ==
  IF names = <<>> THEN S
  ELSE BindImported([S EXCEPT !.identifiers = @ \cup {Head(names)},
                              !.identifiers_storage = DictSetDefault(@, Head(names), "local")],
                    Tail(names))

ImportStatementHandler(S, identifier, names) ==
  IF identifier = "import:module"
  THEN [S EXCEPT !.identifiers = @ \cup {names[1]}]
  ELSE IF identifier = "import:module:as:alias"
  THEN BindImported(S, <<names[1]>>)
  ELSE IF identifier = "from:module:import:subcommand"
  THEN BindImported(S, names)
  ELSE S

StorageError(s, storage) == "Can't make " \o s \o " identifier " \o storage \o "."

DeclareNamesOverwrite(S, storage, names) ==
  [ok |-> TRUE,
   S |-> [S EXCEPT !.identifiers_storage =
            DictUpdate(@, [n \in {names[k] : k \in 1..Len(names)} |-> storage])],
   err |-> ""]

RECURSIVE DeclareNames(_, _, _)
DeclareNames(S, storage, names) ==
  IF names = <<>> THEN [ok |-> TRUE, S |-> S, err |-> ""]
  ELSE LET d == DictSetDefault(S.identifiers_storage, Head(names), storage)
           S1 == [S EXCEPT !.identifiers_storage = d]
       IN IF d[Head(names)] # storage
          THEN [ok |-> FALSE, S |-> S1, err |-> StorageError(d[Head(names)], storage)]
          ELSE DeclareNames(S1, storage, Tail(names))

(* parse_name_list: every declared name is read with bolt:identifier *)
NameListOk(S, names) == \A k \in 1..Len(names) : parse_identifier(S, <<names[k]>>, 1).ok

GlobalNonlocalHandler(S, storage, names) == DeclareNames(S, storage, names)

(***************************************************************************)
(* FunctionConstraint: the commands only a function may hold.              *)
(***************************************************************************)
FunctionOnlyCommands ==
  {"return", "return:value", "yield", "yield:value", "yield:from:value",
   "global:subcommand", "nonlocal:subcommand"}

FunctionConstraintOk(S, commands) ==
  \/ S.function
  \/ \A k \in 1..Len(commands) : commands[k] \notin FunctionOnlyCommands

(***************************************************************************)
(* Specification Spec: one parse of a root.  `streams` is the stack of     *)
(* token streams (the stream of the root and, while a deferred function    *)
(* body is parsed, the stream of that body on top), `stack` the stack of   *)
(* the active root and branch parsers, `status` whether the parse is       *)
(* running, unwinding an exception, done or failed, `ev` what the last     *)
(* parser call was given and what it answered.                             *)
(***************************************************************************)
MaxDefs == 1
MaxNestedCommands == 1
MaxArgs == 1

FOR_ID == "for:target:in:iterable:body"

DEF_ID == "def:function:body"


Atoms == Names \cup {"1"}

RootKinds == {"root", "if_block", "elif_block", "else_block", "loop_body", "function"}

NoManager == [S |-> NoStream, mask |-> {}, mask_storage |-> EmptyDict, branch_scope |-> {}]

Frame(kind, b, hidden) ==
  [kind |-> kind, mask |-> b.mask, mask_storage |-> b.mask_storage,
   branch_scope |-> b.branch_scope, commands |-> <<>>, defs |-> <<>>,
   phase |-> "commands", expect |-> "command", sig_args |-> {},
   hidden |-> hidden, chain_open |-> FALSE, chain_pre |-> {}, chain_intro |-> {},
   chain_assigned |-> {}]

Depth == Len(stack)

Top == stack[Depth]

Cur == streams[Len(streams)]

SetCur(S) == [streams EXCEPT ![Len(streams)] = S]

SetTop(f) == [stack EXCEPT ![Depth] = f]

StatementTexts ==
  {<<n, "=", "1">> : n \in Names}
  \cup {<<n, "+=", "1">> : n \in Names}
  \cup {<<n, "=", "1", "=", "1">> : n \in Names}
  \cup {<<e>> : e \in Atoms}
  \cup {<<NameList[1], "=", NameList[2]>>,
        <<NameList[1], ",", NameList[2], "=", "1">>,
        <<NameList[1], ".", NameList[2], "=", "1">>,
        <<NameList[1], "[", "1", "]", "+=", "1">>,
        <<NameList[1], "==", "1">>}

TargetTexts == {<<n>> : n \in Names} \cup {<<NameList[1], ",", NameList[2]>>}

NameSeqs == {<<n>> : n \in Names} \cup {<<NameList[1], NameList[2]>>}

ArgSeqs == UNION {[1..k -> Names] : k \in 0..MaxArgs}

DefaultSeqs(args) == [1..Len(args) -> Atoms \cup {""}]

Init ==
  /\ streams = <<NewStream>>
  /\ stack = <<Frame("root", NoManager, {})>>
  /\ status = "parsing"
  /\ ev = NoEvent
  /\ input = <<>>
  /\ output = NotRun

CanCommand ==
  /\ status = "parsing"
  /\ Top.kind \in RootKinds
  /\ Top.phase = "commands"
  /\ Top.expect = "command"
  /\ Len(Top.commands) < (IF Depth = 1 THEN MaxRootCommands ELSE MaxNestedCommands)

Raise(S, e) ==
  /\ streams' = SetCur(S)
  /\ status' = "raising"
  /\ ev' = e
  /\ UNCHANGED <<stack, input, output>>

(* frame `f` once a command that is no conditional branch was parsed: no    *)
(* if/elif/else chain is open                                              *)
Completed(f, identifier) ==
  [f EXCEPT !.commands = Append(@, identifier), !.expect = "command",
            !.chain_open = FALSE, !.chain_pre = {}, !.chain_intro = {},
            !.chain_assigned = {}]

Accept(S, identifier, e) ==
  /\ streams' = SetCur(S)
  /\ stack' = SetTop(Completed(Top, identifier))
  /\ ev' = e
  /\ UNCHANGED <<status, input, output>>

StatementEvent(r, toks) ==
  [Event("statement", r.ok, r.err, r.alt, r.targets, toks)
     EXCEPT !.kind = r.kind, !.augmented = r.augmented]

StatementDone(r, toks) ==
  IF r.ok THEN Accept(r.S, "statement", StatementEvent(r, toks))
  ELSE Raise(r.S, StatementEvent(r, toks))

(* command `statement`: bolt:statement *)
Statement(toks) ==
  /\ CanCommand
  /\ StatementDone(parse_statement(Cur, toks), toks)

(* commands import, import .. as, from .. import: ImportStatementHandler *)
ImportCommand(identifier, names) ==
  /\ CanCommand
  /\ identifier = "from:module:import:subcommand" \/ Len(names) = 1
  /\ Accept(ImportStatementHandler(Cur, identifier, names), identifier,
            Event("import", TRUE, "", 0, {names[k] : k \in 1..Len(names)}, names))

(* commands global, nonlocal: parse_name_list, then GlobalNonlocalHandler *)
GlobalNonlocalCommand(storage, names) ==
  /\ CanCommand
  /\ LET targets == {names[k] : k \in 1..Len(names)}
     IN IF ~NameListOk(Cur, names)
        THEN Raise(Cur, Event(storage, FALSE, UndefinedIdentifier, 0, targets, names))
        ELSE LET r == GlobalNonlocalHandler(Cur, storage, names)
             IN IF r.ok
                THEN Accept(r.S, storage \o ":subcommand",
                            Event(storage, TRUE, "", 0, targets, names))
                ELSE Raise(r.S, Event(storage, FALSE, r.err, 0, targets, names))

(* command def, first argument: bolt:function_signature *)
FunctionSignature(args, defaults) ==
  /\ CanCommand
  /\ Depth < MaxDepth
  /\ Len(Top.defs) < MaxDefs
  /\ LET r == parse_function_signature(Cur, FunctionName, args, defaults)
         targets == {args[k] : k \in 1..Len(args)}
         e == Event("function_signature", r.ok, r.err, 0, targets, <<FunctionName>>)
     IN IF ~r.ok THEN Raise(r.S, e)
        ELSE /\ streams' = SetCur(r.S)
             /\ stack' = SetTop([Top EXCEPT !.expect = "function_root", !.sig_args = targets])
             /\ ev' = e
             /\ UNCHANGED <<status, input, output>>

(* command def, second argument: bolt:function_root *)
FunctionRoot ==
  /\ status = "parsing"
  /\ Top.expect = "function_root"
  /\ streams' = SetCur(parse_function_root(Cur))
  /\ stack' = SetTop([Completed(Top, DEF_ID) EXCEPT
                        !.sig_args = {},
                        !.defs = Append(@, [stream |-> FunctionRootSnapshot(Cur),
                                            args |-> Top.sig_args])])
  /\ ev' = Event("function_root", TRUE, "", 0, Top.sig_args, <<FunctionName>>)
  /\ UNCHANGED <<status, input, output>>

(* command if, first argument: bolt:expression *)
IfCondition(token) ==
  /\ CanCommand
  /\ Depth < MaxDepth
  /\ LET r == Expression(Cur, <<token>>, 1)
         e == [Event("if_condition", r.ok, r.err, 0, {}, <<token>>)
                 EXCEPT !.kind = IF r.ok THEN r.node.type ELSE "none"]
     IN IF ~r.ok THEN Raise(Cur, e)
        ELSE /\ stack' = SetTop([Top EXCEPT !.expect = "if_block"])
             /\ ev' = e
             /\ UNCHANGED <<streams, status, input, output>>

(* a nested root begins: FlushPendingIdentifiersParser *)
EnterRoot(kind, b, hidden, parent) ==
  /\ streams' = SetCur(FlushPending(b.S))
  /\ stack' = Append(SetTop(parent), Frame(kind, b, hidden))
  /\ ev' = Event(kind, TRUE, "", 0, hidden, <<>>)
  /\ UNCHANGED <<status, input, output>>

(* command if, second argument: bolt:if_block *)
IfBlock ==
  /\ status = "parsing"
  /\ Top.expect = "if_block"
  /\ EnterRoot("if_block", BranchEnter(FALSE, TRUE, Cur), {},
               [Top EXCEPT !.chain_open = TRUE, !.chain_pre = Cur.identifiers,
                           !.chain_intro = {}, !.chain_assigned = {}])

(* command elif, first argument: bolt:elif_condition, up to the inner parser *)
ElifConditionEnter ==
  /\ CanCommand
  /\ Depth < MaxDepth
  /\ LET b == BranchEnter(TRUE, FALSE, Cur)
     IN /\ streams' = SetCur(b.S)
        /\ stack' = Append(stack, [Frame("elif_condition", b, Top.chain_intro)
                                     EXCEPT !.expect = "expression"])
        /\ ev' = Event("elif_condition", TRUE, "", 0, Top.chain_intro, <<>>)
  /\ UNCHANGED <<status, input, output>>

(* the inner parser of bolt:elif_condition: bolt:expression *)
ConditionExpression(token) ==
  /\ status = "parsing"
  /\ Top.kind = "elif_condition"
  /\ Top.expect = "expression"
  /\ LET r == Expression(Cur, <<token>>, 1)
         e == [Event("condition", r.ok, r.err, 0, Top.hidden, <<token>>)
                 EXCEPT !.kind = IF r.ok THEN r.node.type ELSE "none"]
     IN IF ~r.ok THEN Raise(Cur, e)
        ELSE /\ stack' = SetTop([Top EXCEPT !.expect = "exit"])
             /\ ev' = e
             /\ UNCHANGED <<streams, status, input, output>>

(* bolt:elif_condition returns: the finally clause of BranchScopeManager *)
ElifConditionExit ==
  /\ status = "parsing"
  /\ Top.kind = "elif_condition"
  /\ Top.expect = "exit"
  /\ streams' = SetCur(BranchExit(TRUE, TRUE, Top.mask, Top.mask_storage, Top.branch_scope, Cur))
  /\ stack' = [Front(stack) EXCEPT ![Depth - 1].expect = "elif_block"]
  /\ ev' = Event("elif_condition_exit", TRUE, "", 0, Top.hidden, <<>>)
  /\ UNCHANGED <<status, input, output>>

(* command elif, second argument: bolt:elif_block *)
ElifBlock ==
  /\ status = "parsing"
  /\ Top.expect = "elif_block"
  /\ EnterRoot("elif_block", BranchEnter(TRUE, FALSE, Cur), Top.chain_intro, Top)

(* command else: bolt:else_block *)
ElseBlock ==
  /\ CanCommand
  /\ Depth < MaxDepth
  /\ EnterRoot("else_block", BranchEnter(TRUE, FALSE, Cur), Top.chain_intro, Top)

(* command for: bolt:assignment_target, `in`, bolt:expression *)
ForHeader(toks, token) ==
  /\ CanCommand
  /\ Depth < MaxDepth
  /\ LET t == AssignmentTargetParser(TRUE, TRUE, Cur, toks, 1)
         r == Expression(t.S, <<token>>, 1)
         e == Event("for", r.ok, r.err, 0, t.S.pending_identifiers, <<token>>)
     IN IF ~r.ok THEN Raise(t.S, e)
        ELSE /\ streams' = SetCur(t.S)
             /\ stack' = SetTop([Top EXCEPT !.expect = "loop_body"])
             /\ ev' = e
             /\ UNCHANGED <<status, input, output>>

(* command for, last argument: the nested root of the body *)
LoopBody ==
  /\ status = "parsing"
  /\ Top.expect = "loop_body"
  /\ EnterRoot("loop_body", [NoManager EXCEPT !.S = Cur, !.branch_scope = Cur.branch_scope],
               {}, Top)

CommandOf(kind) ==
  IF kind = "if_block" THEN IF_ID
  ELSE IF kind = "elif_block" THEN ELIF_ID
  ELSE IF kind = "else_block" THEN ELSE_ID
  ELSE FOR_ID

(* the finally clause met when parser `f` returns or raises *)
Finally(f, S) ==
  IF f.kind = "if_block" THEN BranchExit(FALSE, FALSE, f.mask, f.mask_storage, f.branch_scope, S)
  ELSE IF f.kind \in {"elif_block", "else_block"}
  THEN BranchExit(TRUE, FALSE, f.mask, f.mask_storage, f.branch_scope, S)
  ELSE IF f.kind = "elif_condition"
  THEN BranchExit(TRUE, TRUE, f.mask, f.mask_storage, f.branch_scope, S)
  ELSE S

(* the name the statement `y = <expression>` that ends the body of the     *)
(* branch assigned                                                         *)
Assigned ==
  IF ev.op = "statement" /\ ev.ok /\ ev.kind = "Assignment" /\ ev.text[2] = "="
  THEN {ev.text[1]} ELSE {}

(* the root parser of frame Top returns to its caller *)
ReturnRoot ==
  IF Top.kind = "root"
  THEN /\ status' = "done"
       /\ stack' = <<>>
       /\ ev' = Event("root", TRUE, "", 0, {}, <<>>)
       /\ UNCHANGED <<streams, input, output>>
  ELSE IF Top.kind = "function"
  THEN /\ streams' = Front(streams)
       /\ stack' = Front(stack)
       /\ ev' = Event("function_body", TRUE, "", 0, {}, <<>>)
       /\ UNCHANGED <<status, input, output>>
  ELSE LET S == Finally(Top, Cur)
           parent == stack[Depth - 1]
       IN /\ streams' = SetCur(S)
          /\ stack' = [Front(stack) EXCEPT ![Depth - 1] =
                         IF Top.kind \in {"if_block", "elif_block"} /\ parent.chain_open
                         THEN [parent EXCEPT
                                 !.commands = Append(@, CommandOf(Top.kind)),
                                 !.expect = "command",
                                 !.chain_intro = @ \cup (S.identifiers \ parent.chain_pre),
                                 !.chain_assigned = IF Top.kind = "if_block" THEN Assigned
                                                    ELSE @ \cap Assigned]
                         ELSE Completed(parent, CommandOf(Top.kind))]
          /\ ev' = Event("return", TRUE, "", 0, {}, <<Top.kind>>)
          /\ UNCHANGED <<status, input, output>>

(* the commands of the root are parsed: IfElseLoweringParser, then         *)
(* FunctionConstraint, then FunctionRootBacktracker                        *)
EndRoot ==
  /\ status = "parsing"
  /\ Top.kind \in RootKinds
  /\ Top.phase = "commands"
  /\ Top.expect = "command"
  /\ LET commands == [p \in 1..Len(Top.commands) |-> MakeCommand(Top.commands[p], p)]
         lowered == IfElseLoweringParser(commands)
     IN IF ~lowered.ok
        THEN Raise(Cur, Event("lowering", FALSE, lowered.err, 0, {}, <<>>))
        ELSE IF ~FunctionConstraintOk(Cur, Top.commands)
        THEN Raise(Cur, Event("function_constraint", FALSE, InvalidSyntax, 0, {}, <<>>))
        ELSE IF Top.defs = <<>> THEN ReturnRoot
        ELSE /\ stack' = SetTop([Top EXCEPT !.phase = "backtrack"])
             /\ ev' = Event("backtrack", TRUE, "", 0, {}, <<>>)
             /\ UNCHANGED <<streams, status, input, output>>

(* FunctionRootBacktracker: the next deferred body is parsed with          *)
(* nested_root on its own stream                                           *)
FunctionBody ==
  /\ status = "parsing"
  /\ Top.phase = "backtrack"
  /\ Top.defs # <<>>
  /\ LET d == Head(Top.defs)
         fs == FunctionStream(d.stream, Cur.identifiers, d.args)
     IN /\ streams' = Append(streams, FlushPending(fs))
        /\ stack' = Append(SetTop([Top EXCEPT !.defs = Tail(@)]), Frame("function", NoManager, {}))
        /\ ev' = Event("function", TRUE, "", 0, d.args, <<>>)
  /\ UNCHANGED <<status, input, output>>

(* FunctionRootBacktracker: every deferred body is parsed *)
BacktrackDone ==
  /\ status = "parsing"
  /\ Top.phase = "backtrack"
  /\ Top.defs = <<>>
  /\ ReturnRoot

(* an exception leaves the innermost active parser *)
Propagate ==
  /\ status = "raising"
  /\ stack' = Front(stack)
  /\ streams' = IF Top.kind = "function" THEN Front(streams) ELSE SetCur(Finally(Top, Cur))
  /\ status' = IF Depth = 1 THEN "failed" ELSE "raising"
  /\ ev' = [ev EXCEPT !.op = "propagate"]
  /\ UNCHANGED <<input, output>>

Next ==
  \/ \E toks \in StatementTexts : Statement(toks)
  \/ \E identifier \in {"import:module", "import:module:as:alias", "from:module:import:subcommand"},
        names \in NameSeqs : ImportCommand(identifier, names)
  \/ \E storage \in {"global", "nonlocal"}, names \in NameSeqs : GlobalNonlocalCommand(storage, names)
  \/ \E args \in ArgSeqs : \E defaults \in DefaultSeqs(args) : FunctionSignature(args, defaults)
  \/ FunctionRoot
  \/ \E token \in Atoms : IfCondition(token)
  \/ IfBlock
  \/ ElifConditionEnter
  \/ \E token \in Atoms : ConditionExpression(token)
  \/ ElifConditionExit
  \/ ElifBlock
  \/ ElseBlock
  \/ \E toks \in TargetTexts, token \in Atoms : ForHeader(toks, token)
  \/ LoopBody
  \/ EndRoot
  \/ FunctionBody
  \/ BacktrackDone
  \/ Propagate

Spec == Init /\ [][Next]_vars

(***************************************************************************)
(* Specification SpecRoot: the constraints create_bolt_root_parser wraps   *)
(* around a root, applied to a parsed tree of commands.  A command is      *)
(* [identifier, body]; the body of if, for and while is a nested root      *)
(* parsed with the command, the body of def is parsed afterwards by        *)
(* FunctionRootBacktracker on the copy of the stream taken at the def.     *)
(* The trees hold no elif or else, so the lowering leaves them as they     *)
(* are.  `data` is the part of stream.data the constraints read: the       *)
(* `function` and `loop` flags.  Each root appends to the log what it was  *)
(* entered with and how its constraints ended.                             *)
(***************************************************************************)
MaxTreeDepth == 3
MaxTopCommands == 2
MaxInnerCommands == 1

WHILE_ID == "while:condition:body"

AllowedScopes == {WHILE_ID, FOR_ID}

BreakContinueCommands == {"break", "continue"}

NestedRootCommands == {IF_ID, FOR_ID, WHILE_ID}

LeafCommands == {"break", "continue", "return:value", "global:subcommand", OTHER_ID}

(* identifier.partition(":")[0] *)
CommandName(identifier) ==
  IF identifier \in {"return", "return:value"} THEN "return"
  ELSE IF identifier \in {"yield", "yield:value", "yield:from:value"} THEN "yield"
  ELSE IF identifier = "global:subcommand" THEN "global"
  ELSE IF identifier = "nonlocal:subcommand" THEN "nonlocal"
  ELSE identifier

Tree(identifier, body) == [identifier |-> identifier, body |-> body]

CommandIdentifiers(root) == [k \in 1..Len(root) |-> root[k].identifier]

RECURSIVE FirstCommandIn(_, _, _)
FirstCommandIn(identifiers, set, k) ==
  IF k > Len(identifiers) THEN ""
  ELSE IF identifiers[k] \in set THEN identifiers[k]
  ELSE FirstCommandIn(identifiers, set, k + 1)

LoopError(name) == "Can only use '" \o name \o "' in loops."

FunctionError(name) == "Can only use '" \o name \o "' in functions."

(* BreakContinueConstraint, after the root was parsed: "" when accepted *)
BreakContinueError(loop, identifiers) ==
  IF loop \/ FirstCommandIn(identifiers, BreakContinueCommands, 1) = "" THEN ""
  ELSE LoopError(FirstCommandIn(identifiers, BreakContinueCommands, 1))

FunctionConstraintEverywhere(data, identifiers) ==
  IF FirstCommandIn(identifiers, FunctionOnlyCommands, 1) = "" THEN ""
  ELSE FunctionError(CommandName(FirstCommandIn(identifiers, FunctionOnlyCommands, 1)))

(* FunctionConstraint, after the root was parsed: "" when accepted *)
FunctionConstraintError(data, identifiers) ==
  IF data.function \/ FirstCommandIn(identifiers, FunctionOnlyCommands, 1) = "" THEN ""
  ELSE FunctionError(CommandName(FirstCommandIn(identifiers, FunctionOnlyCommands, 1)))

ProvideKept(provided, data) == provided

(* the exit of `with stream.provide(loop=loop)` *)
ProvideExit(provided, data) == [provided EXCEPT !.loop = data.loop]

RootDone(ok, err, log, data) == [ok |-> ok, err |-> err, log |-> log, data |-> data]

RECURSIVE RootParser(_, _, _, _)
RECURSIVE CommandParser(_, _, _, _, _)
RECURSIVE BacktrackParser(_, _, _, _, _, _)

(* the commands of the root in order; a nested root is parsed with its     *)
(* command                                                                 *)
CommandParser(root, k, path, data, log) ==
  IF k > Len(root) THEN RootDone(TRUE, "", log, data)
  ELSE IF root[k].identifier \in NestedRootCommands
  THEN LET r == RootParser(root[k].body, Append(path, root[k].identifier), data, log)
       IN IF ~r.ok THEN r ELSE CommandParser(root, k + 1, path, r.data, r.log)
  ELSE CommandParser(root, k + 1, path, data, log)

(* FunctionRootBacktracker: the deferred bodies in order, each on the copy *)
(* of the stream taken at its def, with `function` set                     *)
BacktrackParser(root, k, path, provided, after, log) ==
  IF k > Len(root) THEN RootDone(TRUE, "", log, after)
  ELSE IF root[k].identifier = DEF_ID
  THEN LET r == RootParser(root[k].body, Append(path, DEF_ID),
                           [provided EXCEPT !.function = TRUE], log)
       IN IF ~r.ok THEN RootDone(FALSE, r.err, r.log, after)
          ELSE BacktrackParser(root, k + 1, path, provided, after, r.log)
  ELSE BacktrackParser(root, k + 1, path, provided, after, log)

RootEntry(root, path, data, provided, inner, err, after) ==
  [commands |-> CommandIdentifiers(root), path |-> path,
   scope |-> IF path = <<>> THEN "" ELSE Last(path),
   function |-> data.function, entered |-> data.loop, loop |-> provided.loop,
   parsed |-> inner.ok, err |-> err, after |-> after.loop]

(* BreakContinueConstraint, then FunctionConstraint, then                  *)
(* FunctionRootBacktracker, on the outcome `inner` of the wrapped parser   *)
RootConstraints(root, path, data, provided, inner, after) ==
  LET identifiers == CommandIdentifiers(root)
      err == IF ~inner.ok THEN inner.err
             ELSE IF BreakContinueError(provided.loop, identifiers) # ""
             THEN BreakContinueError(provided.loop, identifiers)
             ELSE FunctionConstraintError(after, identifiers)
      log == Append(inner.log, RootEntry(root, path, data, provided, inner, err, after))
  IN IF err # "" THEN RootDone(FALSE, err, log, after)
     ELSE BacktrackParser(root, 1, path, provided, after, log)

RootProvided(root, path, data, provided, log) ==
  RootConstraints(root, path, data, provided,
                  CommandParser(root, 1, path, provided, log),
                  ProvideExit(provided, data))

(* create_bolt_root_parser applied to a root whose scope is the last       *)
(* element of `path`                                                       *)
RootParser(root, path, data, log) ==
  RootProvided(root, path, data,
               [data EXCEPT !.loop = data.loop \/ (path # <<>> /\ Last(path) \in AllowedScopes)],
               log)

RECURSIVE Roots(_, _)
(* the roots of at most `n` commands nested at most `d` deep; the nested   *)
(* roots hold at most MaxInnerCommands commands                            *)
Roots(d, n) ==
  LET commands == {Tree(id, <<>>) : id \in LeafCommands}
                  \cup (IF d <= 1 THEN {}
                        ELSE {Tree(id, body) : id \in NestedRootCommands \cup {DEF_ID},
                                               body \in Roots(d - 1, MaxInnerCommands)})
  IN UNION {[1..k -> commands] : k \in 0..n}

NoData == [function |-> FALSE, loop |-> FALSE]

InitRoot ==
  /\ ScopeIdle
  /\ input \in Roots(MaxTreeDepth, MaxTopCommands)
  /\ output = NotRun

ParseRoot ==
  /\ output = NotRun
  /\ LET r == RootParser(input, <<>>, NoData, <<>>)
     IN output' = [done |-> TRUE, ok |-> r.ok, err |-> r.err, log |-> r.log, data |-> r.data]
  /\ UNCHANGED <<streams, stack, status, ev, input>>

NextRoot == ParseRoot

SpecRoot == InitRoot /\ [][NextRoot]_vars

(***************************************************************************)
(* Specification SpecStorage: the commands import, from .. import, global  *)
(* and nonlocal in the body of a function, one after the other on the      *)
(* stream of the body.  `input` is the stream the body starts with: the    *)
(* names of the enclosing scope and the arguments, every stored name       *)
(* "local".  `output` holds the stream, the stream before the last         *)
(* command, and the last command with its outcome.                         *)
(***************************************************************************)
MaxDeclarations == 3
MaxNameList == 2

StorageClasses == {"global", "nonlocal"}

ImportCommands == {"import:module", "import:module:as:alias", "from:module:import:subcommand"}

NameLists == UNION {[1..k -> Names] : k \in 1..MaxNameList}

BodyStreams ==
  {[NewStream EXCEPT !.identifiers = ids, !.function = TRUE,
                     !.identifiers_storage = [n \in stored |-> "local"]] :
     ids \in SUBSET Names, stored \in SUBSET Names} 

Declared(S, before, steps, op, names, ok, err) ==
  [done |-> TRUE, S |-> S, before |-> before, steps |-> steps, op |-> op,
   names |-> names, ok |-> ok, err |-> err]

InitStorage ==
  /\ ScopeIdle
  /\ input \in {S \in BodyStreams : DOMAIN S.identifiers_storage \subseteq S.identifiers}
  /\ output = Declared(input, input, 0, "", <<>>, TRUE, "")

(* commands global, nonlocal: parse_name_list, then GlobalNonlocalHandler *)
DeclareStorage(storage, names) ==
  /\ output.ok
  /\ output.steps < MaxDeclarations
  /\ LET r == GlobalNonlocalHandler(output.S, storage, names)
     IN output' = IF NameListOk(output.S, names)
                  THEN Declared(r.S, output.S, output.steps + 1, storage, names, r.ok, r.err)
                  ELSE Declared(output.S, output.S, output.steps + 1, storage, names,
                                FALSE, UndefinedIdentifier)
  /\ UNCHANGED <<streams, stack, status, ev, input>>

(* commands import, import .. as, from .. import: ImportStatementHandler *)
ImportNames(identifier, names) ==
  /\ output.ok
  /\ output.steps < MaxDeclarations
  /\ identifier = "from:module:import:subcommand" \/ Len(names) = 1
  /\ output' = Declared(ImportStatementHandler(output.S, identifier, names), output.S,
                        output.steps + 1, identifier, names, TRUE, "")
  /\ UNCHANGED <<streams, stack, status, ev, input>>

NextStorage ==
  \/ \E storage \in StorageClasses, names \in NameLists : DeclareStorage(storage, names)
  \/ \E identifier \in ImportCommands, names \in NameLists : ImportNames(identifier, names)

SpecStorage == InitStorage /\ [][NextStorage]_vars

(***************************************************************************)
(* Specification SpecAssign: parse_statement applied once to an assignment *)
(* text on a stream whose identifiers are any of three names, each stored  *)
(* "local" or not stored.                                                  *)
(***************************************************************************)
ChainNames == {NameList[1], NameList[2], NameList[3]}

ChainedAssignment == <<NameList[1], "=", NameList[2], "=", NameList[3], "=", "0">>

AssignmentTexts ==
  {ChainedAssignment,
   <<NameList[1], "=", "0">>,
   <<NameList[1], "=", NameList[2]>>,
   <<NameList[1], "=", "0", "=", "0">>,
   <<NameList[1], ",", NameList[2], "=", "0">>,
   <<NameList[1], ",", NameList[2], "=", NameList[3], "=", "0">>}

AssignStreams ==
  {[NewStream EXCEPT !.identifiers = ids,
                     !.identifiers_storage = [n \in stored |-> "local"]] :
     ids \in SUBSET ChainNames, stored \in SUBSET ChainNames}

InitAssign ==
  /\ ScopeIdle
  /\ input \in {[S |-> S, text |-> text] :
                  S \in {T \in AssignStreams : DOMAIN T.identifiers_storage \subseteq T.identifiers},
                  text \in AssignmentTexts}
  /\ output = NotRun

AssignmentDone(r) ==
  [done |-> TRUE, ok |-> r.ok, err |-> r.err, alt |-> r.alt, S |-> r.S]

ParseAssignment ==
  /\ output = NotRun
  /\ output' = AssignmentDone(parse_statement(input.S, input.text))
  /\ UNCHANGED <<streams, stack, status, ev, input>>

NextAssign == ParseAssignment

SpecAssign == InitAssign /\ [][NextAssign]_vars

(***************************************************************************)
(* Specification SpecSignature: parse_function_signature applied once to   *)
(* `f(arg [= default], ...)` on a stream whose identifiers are any of the  *)
(* names and the function name.                                            *)
(***************************************************************************)
MaxSignatureArguments == 3

SignatureArgs == UNION {[1..k -> Names] : k \in 0..MaxSignatureArguments}

SignatureDefaultTokens == Atoms \cup {FunctionName, ""}

SignatureStreams ==
  {[NewStream EXCEPT !.identifiers = ids] : ids \in SUBSET (Names \cup {FunctionName})}

InitSignature ==
  /\ ScopeIdle
  /\ input \in UNION {{[S |-> S, args |-> args, defaults |-> defaults] :
                         S \in SignatureStreams,
                         defaults \in [1..Len(args) -> SignatureDefaultTokens]} :
                      args \in SignatureArgs}
  /\ output = NotRun

SignatureDone(r, d) ==
  [done |-> TRUE, ok |-> r.ok, err |-> r.err, S |-> r.S, log |-> d.log]

ParseSignature ==
  /\ output = NotRun
  /\ output' = SignatureDone(
       parse_function_signature(input.S, FunctionName, input.args, input.defaults),
       SignatureDefaults(input.S, input.S.identifiers \cup {FunctionName},
                         input.args, input.defaults, 1, <<>>))
  /\ UNCHANGED <<streams, stack, status, ev, input>>

NextSignature == ParseSignature

SpecSignature == InitSignature /\ [][NextSignature]_vars

(***************************************************************************)
(* parse_del_target and specification SpecDel: the target of `del` parsed  *)
(* once from an expression text.  The texts are an atom, up to             *)
(* MaxPostfix postfixes (.name, [0], ()) and either nothing more, a unary  *)
(* operator in front or a binary operator and operand behind.              *)
(***************************************************************************)
MaxPostfix == 2

AstTargetIdentifier(value) == Node("TargetIdentifier", value, <<>>)

AstTargetAttribute(name, value) == Node("TargetAttribute", name, <<value>>)

AstTargetItem(value, arguments) == Node("TargetItem", "", <<value>> \o arguments)

DelTargetMessage == "Can only delete variables, attributes, or subscripted items."

DelTargetOfAny(r) ==
  IF ~r.ok THEN r ELSE Success(AstTargetItem(r.node, <<>>), r.i)

(* the answer of parse_del_target once bolt:expression answered `r` *)
DelTargetOf(r) ==
  IF ~r.ok THEN r
  ELSE IF r.node.type = "Identifier" THEN Success(AstTargetIdentifier(r.node.value), r.i)
  ELSE IF r.node.type = "Attribute"
  THEN Success(AstTargetAttribute(r.node.value, r.node.args[1]), r.i)
  ELSE IF r.node.type = "Lookup"
  THEN Success(AstTargetItem(r.node.args[1], Tail(r.node.args)), r.i)
  ELSE Failure(DelTargetMessage, r.i)

parse_del_target(S, toks, i) == DelTargetOf(Expression(S, toks, i))

PostfixKinds == {"attribute", "lookup", "call"}

PostfixTokens(kind) ==
  IF kind = "attribute" THEN <<".", NameList[2]>>
  ELSE IF kind = "lookup" THEN <<"[", "0", "]">>
  ELSE <<"(", ")">>

RECURSIVE JoinPostfixes(_)
JoinPostfixes(kinds) ==
  IF kinds = <<>> THEN <<>> ELSE PostfixTokens(Head(kinds)) \o JoinPostfixes(Tail(kinds))

DelShapes == {"primary", "unary", "binary"}

DelText(atom, kinds, shape) ==
  LET primary == <<atom>> \o JoinPostfixes(kinds)
  IN IF shape = "unary" THEN <<"-">> \o primary
     ELSE IF shape = "binary" THEN primary \o <<"+", "1">>
     ELSE primary

DelInputs ==
  {[S |-> [NewStream EXCEPT !.identifiers = ids], atom |-> atom, kinds |-> kinds,
    shape |-> shape, text |-> DelText(atom, kinds, shape)] :
     ids \in SUBSET Names, atom \in Atoms,
     kinds \in UNION {[1..k -> PostfixKinds] : k \in 0..MaxPostfix},
     shape \in DelShapes}

InitDel ==
  /\ ScopeIdle
  /\ input \in DelInputs
  /\ output = NotRun

ParseDelTarget ==
  /\ output = NotRun
  /\ LET r == parse_del_target(input.S, input.text, 1)
     IN output' = [done |-> TRUE, ok |-> r.ok, node |-> r.node, i |-> r.i, err |-> r.err]
  /\ UNCHANGED <<streams, stack, status, ev, input>>

NextDel == ParseDelTarget

SpecDel == InitDel /\ [][NextDel]_vars

(***************************************************************************)
(* InterpolationParser and specification SpecInterpolation.  `input` is    *)
(* the configuration of the parser (fallback, prefix, unpack, final; ""    *)
(* stands for None), the tokens and the scope; the wrapped host parser is  *)
(* code outside this file and is taken as a parser that accepts one token  *)
(* of a given set.  `output` is the stream index and the position inside   *)
(* the loop over the alternatives of stream.choose: each alternative is    *)
(* one step, the exit of a failed `with alternative` another.              *)
(***************************************************************************)
AstInterpolation(prefix, unpack, value) ==
  Node("Interpolation", <<prefix, unpack>>, <<value>>)

OrderInterpolationFirst(fallback) == <<"interpolation", "original">>

(* order = ["interpolation", "original"]; reversed when fallback *)
ChooseOrder(fallback) ==
  IF fallback THEN <<"original", "interpolation">> ELSE <<"interpolation", "original">>

(* stream.get("prefix"): the token when it matches, None otherwise *)
PrefixAt(c, i) == IF c.prefix # "" /\ TokenAt(c.toks, i) = c.prefix THEN c.prefix ELSE ""

(* self.unpack is not None and stream.expect("unpack") *)
UnpackOk(c, i) == c.unpack = "" \/ TokenAt(c.toks, i) = c.unpack

AfterPrefix(c, i) == IF PrefixAt(c, i) = "" THEN i ELSE i + 1

AfterUnpackToken(c, i) ==
  IF c.unpack # "" /\ TokenAt(c.toks, AfterPrefix(c, i)) = c.unpack
  THEN AfterPrefix(c, i) + 1 ELSE AfterPrefix(c, i)

(* bolt:interpolation = PrimaryParser(delegate("bolt:identifier")) *)
InterpolationPrimary(S, toks, id) ==
  IF ~id.ok THEN id ELSE Postfix(S, toks, id.i, id.node)

InterpolationValue(c, i, r) ==
  IF ~r.ok THEN r
  ELSE IF c.final /\ ~check_final_expression(c.toks, r.i) THEN Failure(TrailingInput, r.i)
  ELSE Success(AstInterpolation(PrefixAt(c, i),
                                IF c.unpack = "" THEN "" ELSE c.unpack, r.node), r.i)

InterpolationAlternative(c, i) ==
  IF ~UnpackOk(c, AfterPrefix(c, i)) THEN Failure(InvalidSyntax, AfterPrefix(c, i))
  ELSE InterpolationValue(c, i,
         InterpolationPrimary(c.S, c.toks,
                              parse_identifier(c.S, c.toks, AfterUnpackToken(c, i))))

(* self.parser: a host parser that takes one token of its set *)
OriginalAlternative(c, i) ==
  IF TokenAt(c.toks, i) \in c.host THEN Success(Node("Host", TokenAt(c.toks, i), <<>>), i + 1)
  ELSE Failure(InvalidSyntax, i)

Alternative(parser, c, i) ==
  IF parser = "interpolation" THEN InterpolationAlternative(c, i)
  ELSE OriginalAlternative(c, i)

InterpolationTexts ==
  {<<NameList[1]>>, <<"1">>, <<NameList[1], ".", NameList[2]>>, <<NameList[1], "1">>,
   <<"-", NameList[1]>>, <<"-", "1">>, <<"**", NameList[1]>>, <<"**", "1">>,
   <<"-", "**", NameList[1]>>, <<NameList[1], "[", "1", "]">>, <<>>}

HostSets == {Numbers, Names \cup Numbers, {"-", "**"}}

InterpolationInputs ==
  {[S |-> [NewStream EXCEPT !.identifiers = ids], toks |-> toks, fallback |-> fallback,
    prefix |-> prefix, unpack |-> unpack, final |-> final, host |-> host] :
     ids \in {{}, {NameList[1]}}, toks \in InterpolationTexts, fallback \in BOOLEAN,
     prefix \in {"", "-"}, unpack \in {"", "**"}, final \in BOOLEAN, host \in HostSets}

Choosing(k, index, attempts) ==
  [done |-> FALSE, phase |-> "choose", k |-> k, index |-> index, attempts |-> attempts,
   ok |-> FALSE, node |-> NoNode, err |-> ""]

InitInterpolation ==
  /\ ScopeIdle
  /\ input \in InterpolationInputs
  /\ output = Choosing(1, 1, <<>>)

(* the body of `with alternative` for the k-th parser of the order *)
TryAlternative ==
  /\ output.phase = "choose"
  /\ LET parser == ChooseOrder(input.fallback)[output.k]
         r == Alternative(parser, input, output.index)
         attempt == [parser |-> parser, from |-> output.index, ok |-> r.ok,
                     i |-> r.i, err |-> r.err]
     IN output' = [output EXCEPT !.phase = IF r.ok THEN "returned" ELSE "failed",
                                 !.done = r.ok, !.ok = r.ok, !.node = r.node,
                                 !.index = r.i, !.attempts = Append(@, attempt)]
  /\ UNCHANGED <<streams, stack, status, ev, input>>

(* the exit of `with alternative` on a syntax error: the index goes back   *)
(* to the checkpoint; after the last alternative the error is raised       *)
AlternativeFailed ==
  /\ output.phase = "failed"
  /\ output' = IF output.k < Len(ChooseOrder(input.fallback))
               THEN [output EXCEPT !.phase = "choose", !.k = @ + 1, !.index = 1]
               ELSE [output EXCEPT !.phase = "raised", !.done = TRUE, !.index = 1,
                                   !.err = IF output.attempts[1].i >= output.attempts[2].i
                                           THEN output.attempts[1].err
                                           ELSE output.attempts[2].err]
  /\ UNCHANGED <<streams, stack, status, ev, input>>

NextInterpolation == TryAlternative \/ AlternativeFailed

SpecInterpolation == InitInterpolation /\ [][NextInterpolation]_vars

(***************************************************************************)
(* Specification SpecFunction: one `def f(args):` in a scope, step by      *)
(* step: the signature, the function root that captures the snapshot, the  *)
(* backtracker that prepares the stream of the body, then up to            *)
(* MaxBodyCommands commands of the body.  `output` holds the enclosing     *)
(* stream `outer`, the snapshot, the stream `body` of the deferred body     *)
(* and the last command of the body with its outcome.                      *)
(***************************************************************************)
MaxBodyCommands == 2

FunctionInputs ==
  {[S |-> [NewStream EXCEPT !.identifiers = ids,
                            !.identifiers_storage = [n \in stored |-> "local"]],
    args |-> args] :
     ids \in SUBSET Names, stored \in SUBSET Names, args \in ArgSeqs}

BodyTexts ==
  UNION {{<<n>>, <<n, "+=", "1">>, <<n, "=", "1">>} : n \in Names}

InFunctionDef(phase, outer, snapshot, body) ==
  [done |-> TRUE, phase |-> phase, outer |-> outer, snapshot |-> snapshot, body |-> body,
   before |-> body, n |-> 0, op |-> "", text |-> <<>>, ok |-> TRUE, err |-> ""]

InitFunction ==
  /\ ScopeIdle
  /\ input \in {c \in FunctionInputs : DOMAIN c.S.identifiers_storage \subseteq c.S.identifiers}
  /\ output = InFunctionDef("def", input.S, NoStream, NoStream)

(* command def, first argument: bolt:function_signature *)
DefSignature ==
  /\ output.phase = "def"
  /\ output' = [output EXCEPT
       !.phase = "signature",
       !.outer = parse_function_signature(output.outer, FunctionName, input.args,
                                          [k \in 1..Len(input.args) |-> ""]).S]
  /\ UNCHANGED <<streams, stack, status, ev, input>>

(* command def, second argument: bolt:function_root *)
DefRoot ==
  /\ output.phase = "signature"
  /\ output' = [output EXCEPT !.phase = "captured",
                              !.snapshot = FunctionRootSnapshot(output.outer),
                              !.outer = parse_function_root(output.outer)]
  /\ UNCHANGED <<streams, stack, status, ev, input>>

(* FunctionRootBacktracker, then the nested root of the body begins *)
DefBody ==
  /\ output.phase = "captured"
  /\ LET fs == FlushPending(FunctionStream(output.snapshot, output.outer.identifiers,
                                           {input.args[k] : k \in 1..Len(input.args)}))
     IN output' = [output EXCEPT !.phase = "body", !.body = fs, !.before = fs]
  /\ UNCHANGED <<streams, stack, status, ev, input>>

BodyCommand(op, text, ok, S, err) ==
  /\ output' = [output EXCEPT !.phase = IF ok THEN "body" ELSE "raised",
                              !.before = output.body, !.body = S, !.n = @ + 1,
                              !.op = op, !.text = text, !.ok = ok, !.err = err]
  /\ UNCHANGED <<streams, stack, status, ev, input>>

BodyParsed(op, text, r) == BodyCommand(op, text, r.ok, r.S, r.err)

(* a statement of the body: bolt:statement *)
BodyStatement(toks) ==
  /\ output.phase = "body"
  /\ output.n < MaxBodyCommands
  /\ BodyParsed("statement", toks, parse_statement(output.body, toks))

(* a global or nonlocal declaration of the body *)
BodyDeclare(storage, name) ==
  /\ output.phase = "body"
  /\ output.n < MaxBodyCommands
  /\ IF NameListOk(output.body, <<name>>)
     THEN BodyParsed(storage, <<name>>, GlobalNonlocalHandler(output.body, storage, <<name>>))
     ELSE BodyCommand(storage, <<name>>, FALSE, output.body, UndefinedIdentifier)

(* an import of the body: from .. import name *)
BodyImport(name) ==
  /\ output.phase = "body"
  /\ output.n < MaxBodyCommands
  /\ BodyCommand("import", <<name>>, TRUE,
                 ImportStatementHandler(output.body, "from:module:import:subcommand", <<name>>),
                 "")

NextFunction ==
  \/ DefSignature
  \/ DefRoot
  \/ DefBody
  \/ \E toks \in BodyTexts : BodyStatement(toks)
  \/ \E storage \in StorageClasses, name \in Names : BodyDeclare(storage, name)
  \/ \E name \in Names : BodyImport(name)

SpecFunction == InitFunction /\ [][NextFunction]_vars

(***************************************************************************)
(* Specification SpecHandler: UndefinedIdentifierErrorHandler around an    *)
(* inner parser whose outcome is the input: a node, or an exception with   *)
(* its class, the position of its location, its message and the           *)
(* alternatives recorded on it, each with its class, the position of its   *)
(* end location and the notes it already carries.                          *)
(***************************************************************************)
MaxPos == 3
MaxAlternatives == 2

ErrorClasses == {UndefinedIdentifier, InvalidSyntax}

SyntaxError(class, pos, end, message, notes, alternatives) ==
  [class |-> class, pos |-> pos, end |-> end, message |-> message, notes |-> notes,
   alternatives |-> alternatives]

(* the alternatives an exception carries have no alternatives of interest *)
RecordedAlternatives ==
  {SyntaxError(class, 0, end, "Identifier is not defined.", notes, <<>>) :
     class \in ErrorClasses, end \in 0..MaxPos, notes \in {<<>>, <<"earlier note">>}}

AlternativeLists ==
  UNION {[1..k -> RecordedAlternatives] : k \in 0..MaxAlternatives}

InnerOutcomes ==
  {[ok |-> TRUE, node |-> AstIdentifier(NameList[1]), exc |-> NoNode]}
    \cup {[ok |-> FALSE, node |-> NoNode,
           exc |-> SyntaxError(class, pos, pos, "Expected something else.", <<>>, alts)] :
            class \in ErrorClasses, pos \in 0..MaxPos, alts \in AlternativeLists}

(* alt.end_location.pos + 1 >= exc.location.pos *)
ReachesStrictly(alt, exc) == alt.end >= exc.pos

Reaches(alt, exc) == alt.end + 1 >= exc.pos

(* exc.alternatives.get(UndefinedIdentifier, []) *)
UndefinedAlternatives(exc) ==
  SelectSeq(exc.alternatives, LAMBDA alt : alt.class = UndefinedIdentifier)

RECURSIVE RaiseHint(_, _, _)
(* the for loop of the handler: the first alternative that reaches the     *)
(* error is raised with str(exc) appended to its notes, else exc is raised *)
RaiseHint(alts, k, exc) ==
  IF k > Len(alts) THEN exc
  ELSE IF Reaches(alts[k], exc)
       THEN [alts[k] EXCEPT !.notes = Append(@, exc.message)]
       ELSE RaiseHint(alts, k + 1, exc)

UndefinedIdentifierErrorHandler(inner) ==
  IF inner.ok THEN [done |-> TRUE, ok |-> TRUE, node |-> inner.node, exc |-> NoNode]
  ELSE IF inner.exc.class = UndefinedIdentifier
       THEN [done |-> TRUE, ok |-> FALSE, node |-> NoNode, exc |-> inner.exc]
       ELSE [done |-> TRUE, ok |-> FALSE, node |-> NoNode,
             exc |-> RaiseHint(UndefinedAlternatives(inner.exc), 1, inner.exc)]

InitHandler ==
  /\ ScopeIdle
  /\ input \in InnerOutcomes
  /\ output = NotRun

HandleError ==
  /\ ~output.done
  /\ output' = UndefinedIdentifierErrorHandler(input)
  /\ UNCHANGED <<streams, stack, status, ev, input>>

NextHandler == HandleError

SpecHandler == InitHandler /\ [][NextHandler]_vars

(***************************************************************************)
(* Specification SpecPrimary: PrimaryParser on an atom followed by up to   *)
(* MaxPrimaryPostfix postfixes, among them the empty subscript `[]`.       *)
(***************************************************************************)
MaxPrimaryPostfix == 2

PrimaryPostfixes ==
  {<<"[", "]">>, <<"[", "0", "]">>, <<"(", ")">>, <<".", NameList[1]>>}

RECURSIVE PostfixChains(_)
PostfixChains(n) ==
  IF n = 0 THEN {<<>>}
  ELSE PostfixChains(n - 1)
         \cup {c \o p : c \in PostfixChains(n - 1), p \in PrimaryPostfixes}

PrimaryInputs ==
  {[S |-> [NewStream EXCEPT !.identifiers = ids], toks |-> <<atom>> \o chain] :
     ids \in SUBSET Names, atom \in Names \cup {"0"}, chain \in PostfixChains(MaxPrimaryPostfix)}

InitPrimary ==
  /\ ScopeIdle
  /\ input \in PrimaryInputs
  /\ output = NotRun

ParsePrimary ==
  /\ ~output.done
  /\ output' = [done |-> TRUE, r |-> PrimaryParser(input.S, input.toks, 1)]
  /\ UNCHANGED <<streams, stack, status, ev, input>>

NextPrimary == ParsePrimary

SpecPrimary == InitPrimary /\ [][NextPrimary]_vars

(***************************************************************************)
(* Specification SpecBranch: the scope of a function body through one      *)
(* if ... else chain.  Up to MaxBranchCommands commands (an assignment, an *)
(* import, a global or nonlocal declaration, a function definition) are    *)
(* parsed before the chain, in the if body, in the else body and after     *)
(* the chain; the BranchScopeManager of bolt:if_block and bolt:else_block  *)
(* act on entry and on exit of the two bodies.  A command that raises      *)
(* leaves through the finally clause of the manager it is in.              *)
(***************************************************************************)
MaxBranchCommands == 3

InBranch(S, phase, manager, n, op, name, ok) ==
  [done |-> TRUE, S |-> S, phase |-> phase, manager |-> manager, n |-> n,
   op |-> op, name |-> name, ok |-> ok]

InitBranch ==
  /\ ScopeIdle
  /\ input \in {S \in BodyStreams : DOMAIN S.identifiers_storage \subseteq S.identifiers}
  /\ output = InBranch(input, "body", NoManager, 0, "", "", TRUE)

BranchStep(S, phase, manager, op) ==
  /\ output' = InBranch(S, phase, manager, output.n, op, "", TRUE)
  /\ UNCHANGED <<streams, stack, status, ev, input>>

(* bolt:if_block = BranchScopeManager(nested_root, update_before=True) *)
EnterIfBlock ==
  /\ output.phase = "body"
  /\ LET b == BranchEnter(FALSE, TRUE, output.S)
     IN BranchStep(b.S, "if_block", b, "enter")

(* the finally clause of the manager in force *)
ManagerExit(S) ==
  IF output.phase \in {"if_block", "else_block"}
  THEN BranchExit(output.phase = "else_block", FALSE, output.manager.mask,
                  output.manager.mask_storage, output.manager.branch_scope, S)
  ELSE S

ExitIfBlock ==
  /\ output.phase = "if_block"
  /\ BranchStep(ManagerExit(output.S), "chain", NoManager, "exit")

(* bolt:else_block = BranchScopeManager(nested_root, mask=True) *)
EnterElseBlock ==
  /\ output.phase = "chain"
  /\ LET b == BranchEnter(TRUE, FALSE, output.S)
     IN BranchStep(b.S, "else_block", b, "enter")

ExitElseBlock ==
  /\ output.phase = "else_block"
  /\ BranchStep(ManagerExit(output.S), "after", NoManager, "exit")

BranchCommand(op, name, ok, S) ==
  /\ output.phase \in {"body", "if_block", "else_block", "after"}
  /\ output.n < MaxBranchCommands
  /\ output' = IF ok
               THEN InBranch(S, output.phase, output.manager, output.n + 1, op, name, TRUE)
               ELSE InBranch(ManagerExit(S), "raised", NoManager, output.n + 1, op, name, FALSE)
  /\ UNCHANGED <<streams, stack, status, ev, input>>

BranchParsed(op, name, r) == BranchCommand(op, name, r.ok, r.S)

(* name = 1 *)
BranchAssign(name) ==
  BranchParsed("assign", name, parse_statement(output.S, <<name, "=", "1">>))

(* from .. import name *)
BranchImport(name) ==
  BranchCommand("import", name, TRUE,
                ImportStatementHandler(output.S, "from:module:import:subcommand", <<name>>))

(* global name, nonlocal name *)
BranchDeclare(storage, name) ==
  IF NameListOk(output.S, <<name>>)
  THEN BranchParsed(storage, name, GlobalNonlocalHandler(output.S, storage, <<name>>))
  ELSE BranchCommand(storage, name, FALSE, output.S)

DefinedFunction(sig) ==
  IF sig.ok THEN [ok |-> TRUE, S |-> parse_function_root(sig.S)] ELSE sig

(* def name(): the signature and the function root *)
BranchDefine(name) ==
  BranchParsed("def", name,
               DefinedFunction(parse_function_signature(output.S, name, <<>>, <<>>)))

NextBranch ==
  \/ EnterIfBlock
  \/ ExitIfBlock
  \/ EnterElseBlock
  \/ ExitElseBlock
  \/ \E name \in Names : BranchAssign(name)
  \/ \E name \in Names : BranchImport(name)
  \/ \E storage \in StorageClasses, name \in Names : BranchDeclare(storage, name)
  \/ \E name \in Names : BranchDefine(name)

SpecBranch == InitBranch /\ [][NextBranch]_vars

(***************************************************************************)
(*                         P R O P E R T I E S                             *)
(***************************************************************************)

(***************************************************************************)
(* The binding order of the binary operators as the grammar states it,     *)
(* loosest first, and the operators that associate to the right.           *)
(***************************************************************************)
BindingOrder ==
  << {"or"}, {"and"}, {"==", "!=", "<=", "<", ">=", ">", "not in", "in", "is not", "is"},
     {"|"}, {"^"}, {"&"}, {"<<", ">>"}, {"+", "-"}, {"*", "//", "/", "%"}, {"**"} >>

Rank(op) == CHOOSE r \in 1..Len(BindingOrder) : op \in BindingOrder[r]

RightAssociativeOps == {"**"}

SetMin(S) == CHOOSE x \in S : \A y \in S : x <= y

SetMax(S) == CHOOSE x \in S : \A y \in S : x >= y

(* the tree of operands lo..hi: split at the loosest operator between them, *)
(* the last one of that rank, or the first one when it associates right     *)
RECURSIVE ExpectedTree(_, _, _)
ExpectedTree(ops, lo, hi) ==
  IF lo = hi THEN AstValue(OperandToken(lo))
  ELSE LET loosest == SetMin({Rank(ops[j]) : j \in (lo + 1)..hi})
           at == {j \in (lo + 1)..hi : Rank(ops[j]) = loosest}
           split == IF \E j \in at : ops[j] \in RightAssociativeOps
                    THEN SetMin(at) ELSE SetMax(at)
       IN AstExpressionBinary(ops[split], ExpectedTree(ops, lo, split - 1),
                              ExpectedTree(ops, split, hi))

(* C5: operands n0..nk joined by o1..ok parse to n0 alone for k = 0, to the *)
(* left-nested tree for operators of one left-associative level, to the     *)
(* right-nested tree for **, each operator keeping its neighbours, and an   *)
(* operator of a higher-binding level groups before a lower one.            *)
C5_PrecedenceAssociativity ==
  output.done =>
    /\ output.ok
    /\ output.i = 2 * Len(input) + 2
    /\ output.node = ExpectedTree(input, 0, Len(input))

C5_Witness ==
  /\ output.done
  /\ input = <<"-", "**", "**">>
  /\ output.node =
       AstExpressionBinary("-", AstValue("0"),
         AstExpressionBinary("**", AstValue("1"),
           AstExpressionBinary("**", AstValue("2"), AstValue("3"))))

(***************************************************************************)
(* A command list is rogue when some elif or else is not immediately       *)
(* preceded by an if or an elif.                                           *)
(***************************************************************************)
Rogue(commands) ==
  \E p \in 1..Len(commands) :
    /\ commands[p].identifier \in {ELIF_ID, ELSE_ID}
    /\ \/ p = 1
       \/ commands[p - 1].identifier \notin {IF_ID, ELIF_ID}

RECURSIVE ElifRun(_)
ElifRun(s) == IF s = <<>> \/ Head(s).identifier # ELIF_ID THEN 0 ELSE 1 + ElifRun(Tail(s))

(* the first elif becomes else { if ..; <the rest, nested the same way> } *)
RECURSIVE RefNest(_, _)
RefNest(elifs, tail) ==
  AstCommand(ELSE_ID,
    << AstRoot(<<AstCommand(IF_ID, Head(elifs).arguments)>>
               \o (IF Len(elifs) > 1 THEN <<RefNest(Tail(elifs), tail)>> ELSE tail)) >>)

RECURSIVE RefLower(_)
RefLower(s) ==
  IF s = <<>> THEN <<>>
  ELSE IF Head(s).identifier = ELIF_ID
  THEN LET n == ElifRun(s)
           has_else == n < Len(s) /\ s[n + 1].identifier = ELSE_ID
           used == IF has_else THEN n + 1 ELSE n
       IN <<RefNest(SubSeq(s, 1, n), IF has_else THEN <<s[n + 1]>> ELSE <<>>)>>
          \o RefLower(SubSeq(s, used + 1, Len(s)))
  ELSE <<Head(s)>> \o RefLower(Tail(s))

(* C6: for a well-formed command list the lowering succeeds, leaves no      *)
(* top-level elif, turns each if/elif.../else chain into the if followed by *)
(* one else:body whose root holds the first elif as an if and, nested in    *)
(* the same way, the remaining elifs with the original else innermost, and  *)
(* keeps every other command in place.                                      *)
C6_IfElseLowering ==
  (output.done /\ ~Rogue(input)) =>
    /\ output.ok
    /\ output.commands = RefLower(input)
    /\ \A p \in 1..Len(output.commands) : output.commands[p].identifier # ELIF_ID

C6_Witness ==
  /\ output.done
  /\ output.ok
  /\ [p \in 1..Len(input) |-> input[p].identifier] = <<IF_ID, ELIF_ID, ELIF_ID, ELSE_ID>>
  /\ Len(output.commands) = 2
  /\ output.commands[1] = input[1]
  /\ output.commands[2].arguments[1].commands[1] = AstCommand(IF_ID, input[2].arguments)
  /\ output.commands[2].arguments[1].commands[2].arguments[1].commands
       = <<AstCommand(IF_ID, input[3].arguments), input[4]>>

(* C7: the lowering raises "Conditional branch must be part of an if        *)
(* statement." exactly when the command list is rogue.                      *)
C7_RogueBranchRejected ==
  output.done => ((~output.ok /\ output.err = RogueMessage) <=> Rogue(input))

(***************************************************************************)
(* Properties of the scope tables, checked under Spec.                     *)
(***************************************************************************)
Parsing == status = "parsing" /\ Depth > 0

ReadOps == {"if_condition", "condition"}

(* C1 (read safety): a condition that is one identifier token parses to an *)
(* Identifier node iff the name is in `identifiers` of the stream at that  *)
(* moment, otherwise UndefinedIdentifier is raised; in both cases every    *)
(* table of every stream is what it was before the read.                   *)
C1_ReadSafety ==
  [][(ev'.op \in ReadOps /\ ev'.text[1] \in Names) =>
       /\ ev'.ok <=> ev'.text[1] \in Cur.identifiers
       /\ ev'.ok => ev'.kind = "Identifier"
       /\ ~ev'.ok => ev'.err = UndefinedIdentifier /\ status' = "raising"
       /\ streams' = streams]_vars

C1_Witness ==
  /\ ev.op = "condition"
  /\ ev.ok
  /\ ev.text[1] \in Names
  /\ ev.kind = "Identifier"

(* C2 (scope flush): after parse_statement returned successfully both      *)
(* pending tables are empty, every target of the accepted assignment is in *)
(* `identifiers`, and its storage class is the pending one: "local" for a  *)
(* name that had no storage class, the class it had otherwise.             *)
C2_ScopeFlush ==
  [][(ev'.op = "statement" /\ ev'.ok) =>
       /\ Cur'.pending_identifiers = {}
       /\ Cur'.pending_identifiers_storage = EmptyDict
       /\ ev'.targets \subseteq Cur'.identifiers
       /\ \A n \in ev'.targets :
            /\ n \in DOMAIN Cur'.identifiers_storage
            /\ Cur'.identifiers_storage[n] =
                 IF n \in DOMAIN Cur.identifiers_storage
                 THEN Cur.identifiers_storage[n] ELSE "local"]_vars

C2_Witness ==
  /\ ev.op = "statement"
  /\ ev.ok
  /\ ev.alt = 2
  /\ ev.targets = {NameList[1], NameList[2]}
  /\ ev.augmented.err = UndefinedIdentifier

SiblingKinds == {"elif_condition", "elif_block", "else_block"}

(* C3 (branch masking): when the condition or the body of a later sibling  *)
(* of an if/elif/else chain starts to be parsed, no name first introduced  *)
(* inside an earlier branch's body is in `identifiers`.                    *)
C3_BranchMasking ==
  (Parsing /\ Top.kind \in SiblingKinds /\ Top.commands = <<>>) =>
    Top.hidden \cap Cur.identifiers = {}

(* C4 (function closure): while the deferred body of a top-level def is    *)
(* parsed, every name in the enclosing root's `identifiers` is in the      *)
(* body's, and a statement that only reads such a name is accepted.        *)
C4_FunctionClosure ==
  (Depth = 2 /\ Top.kind = "function") =>
    LET outer == streams[Len(streams) - 1].identifiers
    IN /\ outer \subseteq Cur.identifiers
       /\ (ev.op = "statement" /\ Len(ev.text) = 1 /\ ev.text[1] \in outer) => ev.ok

C4_Witness ==
  /\ Depth = 2
  /\ Top.kind = "function"
  /\ stack[1].commands = <<DEF_ID, "statement">>
  /\ ev.op = "statement"
  /\ ev.text = <<NameList[1]>>
  /\ ev.ok
  /\ ev.kind = "Identifier"

(* C8 (augmented-assignment target): the target parser without             *)
(* allow_undefined_identifiers accepts a name iff it is in both            *)
(* `identifiers` and `identifiers_storage`, and then rebind is true; for   *)
(* any other name it raises UndefinedIdentifier, writes to no table, and   *)
(* attaches the note iff the name is in `identifiers` without a storage    *)
(* class.                                                                  *)
C8_AugmentedTarget ==
  [][(ev'.op = "statement" /\ ev'.text[1] \in Names) =>
       LET n == ev'.text[1]
           is_defined == n \in Cur.identifiers
           with_storage == n \in DOMAIN Cur.identifiers_storage
           t == ev'.augmented
       IN /\ t.ok <=> (is_defined /\ with_storage)
          /\ t.ok => t.rebinds = <<TRUE>>
          /\ ~t.touched
          /\ ~t.ok => /\ t.err = UndefinedIdentifier
                      /\ t.note <=> (is_defined /\ ~with_storage)]_vars

C8_Witness ==
  /\ ev.op = "statement"
  /\ Len(ev.text) = 3
  /\ ev.text[2] = "+="
  /\ ~ev.augmented.ok
  /\ ev.augmented.err = UndefinedIdentifier
  /\ ev.augmented.note

(* C9 (no scope mutation in a failed alternative): when parse_statement    *)
(* as a whole fails, `identifiers` and `identifiers_storage` are what they *)
(* were before it started.                                                 *)
C9_FailedStatementLeavesTables ==
  [][(ev'.op = "statement" /\ ~ev'.ok) =>
       /\ Cur'.identifiers = Cur.identifiers
       /\ Cur'.identifiers_storage = Cur.identifiers_storage]_vars

(* C10 (storage subset invariant): in every stream, the root's and the     *)
(* deferred body's own, every key of `identifiers_storage` is a member of  *)
(* `identifiers`, also while a branch is masked.                           *)
C10_StorageSubset ==
  \A k \in 1..Len(streams) :
    DOMAIN streams[k].identifiers_storage \subseteq streams[k].identifiers

C10_Witness ==
  /\ Parsing
  /\ Top.kind \in {"elif_block", "else_block"}
  /\ Top.mask # {}
  /\ DOMAIN Top.mask_storage # {}
  /\ DOMAIN Cur.identifiers_storage # {}

(***************************************************************************)
(* Properties of the call arguments, checked under SpecCall.               *)
(***************************************************************************)
ClosesPositional(kind) == kind \in {"keyword", "dict"}

(* the positions of the arguments that follow a keyword or `**` argument   *)
(* and are positional or `*` arguments                                     *)
Misplaced(kinds) ==
  {j \in 1..Len(kinds) :
     /\ ~ClosesPositional(kinds[j])
     /\ \E k \in 1..(j - 1) : ClosesPositional(kinds[k])}

NodeKind(node) ==
  IF node.type = "Keyword" THEN "keyword"
  ELSE IF node.type = "Unpack" THEN node.value
  ELSE "positional"

(* C11: a call is accepted, with its arguments in order, iff no positional *)
(* or `*` argument follows a keyword or `**` argument; otherwise the first *)
(* such argument raises the positional error when it is an expression and *)
(* the list-unpacking error when it is a `*` unpack.                       *)
C11_CallArgumentOrdering ==
  output.done =>
    IF Misplaced(input) = {}
    THEN /\ output.ok
         /\ output.node.type = "Call"
         /\ Len(output.node.args) = Len(input) + 1
         /\ \A j \in 1..Len(input) : NodeKind(output.node.args[j + 1]) = input[j]
    ELSE /\ ~output.ok
         /\ output.err = IF input[SetMin(Misplaced(input))] = "list"
                          THEN ListUnpackAfterKeyword ELSE PositionalAfterKeyword

C11_Witness ==
  /\ output.done
  /\ input = <<"positional", "dict", "keyword", "list">>
  /\ output.err = ListUnpackAfterKeyword

(***************************************************************************)
(* Properties of the root constraints, checked under SpecRoot.             *)
(***************************************************************************)
Entries == IF output.done THEN {output.log[k] : k \in 1..Len(output.log)} ELSE {}

Holds(e, set) == \E k \in 1..Len(e.commands) : e.commands[k] \in set

InFunction(e) == \E k \in 1..Len(e.path) : e.path[k] = DEF_ID

FunctionErrors == {FunctionError(CommandName(c)) : c \in FunctionOnlyCommands}

LoopErrors == {LoopError(c) : c \in BreakContinueCommands}

(* what BreakContinueConstraint handed to FunctionConstraint was a root *)
ReachedFunctionConstraint(e) == e.parsed /\ e.err \notin LoopErrors

(* C12: a root that reaches FunctionConstraint is rejected with "Can only  *)
(* use '<name>' in functions." iff `function` is not set and one of its    *)
(* top-level commands is a function-only command; the deferred body of a   *)
(* def and every root nested in it have `function` set and are accepted    *)
(* with such commands.                                                     *)
C12_FunctionOnlyCommands ==
  \A e \in Entries :
    /\ ReachedFunctionConstraint(e) =>
         /\ e.err \in FunctionErrors <=> (~e.function /\ Holds(e, FunctionOnlyCommands))
         /\ e.err \in FunctionErrors =>
              e.err = FunctionError(CommandName(FirstCommandIn(e.commands, FunctionOnlyCommands, 1)))
         /\ e.err \notin FunctionErrors => e.err = ""
    /\ InFunction(e) => e.function

C12_Witness ==
  /\ output.done
  /\ output.ok
  /\ \E e \in Entries :
       /\ e.path = <<DEF_ID, IF_ID>>
       /\ e.commands = <<"return:value">>
       /\ e.err = ""

(* C13: a root whose commands were parsed and that holds a break or        *)
(* continue is accepted by BreakContinueConstraint iff its scope is a loop *)
(* scope or `loop` was true when it was entered; outside function bodies   *)
(* `loop` is true at entry iff an enclosing root has a loop scope; and     *)
(* `loop` is after the root, returned or failed, what it was at entry.     *)
C13_BreakContinueInLoops ==
  \A e \in Entries :
    /\ (e.parsed /\ Holds(e, BreakContinueCommands)) =>
         /\ e.err \notin LoopErrors <=> (e.scope \in AllowedScopes \/ e.entered)
         /\ e.err \in LoopErrors =>
              e.err = LoopError(FirstCommandIn(e.commands, BreakContinueCommands, 1))
    /\ ~InFunction(e) =>
         (e.entered <=> \E k \in 1..(Len(e.path) - 1) : e.path[k] \in AllowedScopes)
    /\ e.after = e.entered

C13_Witness ==
  /\ output.done
  /\ output.ok
  /\ \E e \in Entries :
       /\ e.path = <<WHILE_ID, IF_ID>>
       /\ e.commands = <<"break">>
       /\ e.entered
  /\ \E e \in Entries : e.path = <<>> /\ Len(e.commands) = 2 /\ ~e.after

(***************************************************************************)
(* Properties of the storage classes, checked under SpecStorage.           *)
(***************************************************************************)
StoredBefore == DOMAIN output.before.identifiers_storage

(* the names of the list whose stored class differs from `storage` *)
Conflicts(storage) ==
  {k \in 1..Len(output.names) :
     /\ output.names[k] \in StoredBefore
     /\ output.before.identifiers_storage[output.names[k]] # storage}

(* the length of the list the handler walked: up to the first conflict *)
Walked(storage) ==
  IF Conflicts(storage) = {} THEN Len(output.names) ELSE SetMin(Conflicts(storage))

(* C14: for each name of a global or nonlocal list, in order: a name with  *)
(* no storage class gets the declared one, a name with the declared class  *)
(* is accepted with nothing changed, and the first name with another class *)
(* raises "Can't make <existing> identifier <new>."; no class a name had   *)
(* before the command is changed.                                          *)
C14_StorageDeclaration ==
  (output.op \in StorageClasses /\ output.err # UndefinedIdentifier) =>
    LET storage == output.op
        after == output.S.identifiers_storage
        walked == {output.names[k] : k \in 1..Walked(storage)}
    IN /\ output.ok <=> Conflicts(storage) = {}
       /\ ~output.ok =>
            output.err = StorageError(
              output.before.identifiers_storage[output.names[Walked(storage)]], storage)
       /\ DOMAIN after = StoredBefore \cup walked
       /\ \A n \in StoredBefore : after[n] = output.before.identifiers_storage[n]
       /\ \A n \in walked \ StoredBefore : after[n] = storage
       /\ output.S = [output.before EXCEPT !.identifiers_storage = after]

C14_Witness ==
  /\ output.op = "nonlocal"
  /\ output.names = <<NameList[1], NameList[2]>>
  /\ NameList[1] \notin StoredBefore
  /\ NameList[2] \in StoredBefore
  /\ output.before.identifiers_storage[NameList[2]] = "global"
  /\ output.err = StorageError("global", "nonlocal")
  /\ output.S.identifiers_storage[NameList[1]] = "nonlocal"
  /\ output.S.identifiers_storage[NameList[2]] = "global"

(* C15: after `from M import n1, .., nk` every ni, and after `import M as  *)
(* alias` the alias, is in identifiers and has the storage class "local",  *)
(* whatever the tables held before.                                        *)
C15_ImportedNamesLocal ==
  output.op \in {"import:module:as:alias", "from:module:import:subcommand"} =>
    \A k \in 1..Len(output.names) :
      /\ output.names[k] \in output.S.identifiers
      /\ output.names[k] \in DOMAIN output.S.identifiers_storage
      /\ output.S.identifiers_storage[output.names[k]] = "local"

(***************************************************************************)
(* Properties of assignments, checked under SpecAssign.                    *)
(***************************************************************************)
AssignmentOps(text) == {k \in 1..Len(text) : text[k] = "="}

(* the text has one `=` and every name it reads after it is defined *)
PlainAssignment(text, S) ==
  /\ Cardinality(AssignmentOps(text)) = 1
  /\ \A k \in 1..Len(text) :
       (k > SetMin(AssignmentOps(text)) /\ text[k] \in ChainNames) => text[k] \in S.identifiers

(* C16: `a = b = c = 0` fails with "Trailing input following final         *)
(* expression." whether or not a, b and c are defined; a plain target      *)
(* followed by more than one `=` is never accepted, and followed by one    *)
(* `=` and one expression it is accepted.                                  *)
C16_ChainedAssignmentRejected ==
  output.done =>
    /\ input.text = ChainedAssignment => (~output.ok /\ output.err = TrailingInput)
    /\ Cardinality(AssignmentOps(input.text)) > 1 => ~output.ok
    /\ PlainAssignment(input.text, input.S) => output.ok

(* the second half of C16 alone *)
OneAssignmentOperator ==
  output.done =>
    /\ Cardinality(AssignmentOps(input.text)) > 1 => ~output.ok
    /\ PlainAssignment(input.text, input.S) => output.ok

(* the chained assignment reports the trailing input when `b` is defined *)
ChainedWithDefinedValue ==
  (output.done /\ input.text = ChainedAssignment /\ NameList[2] \in input.S.identifiers) =>
    (~output.ok /\ output.err = TrailingInput)

(***************************************************************************)
(* Visibility after a conditional, checked under Spec.                     *)
(***************************************************************************)
(* the else body of an if/elif/else chain of the top root returns *)
ChainReturns ==
  /\ status = "parsing"
  /\ Depth = 2
  /\ Top.kind = "else_block"
  /\ stack[1].chain_open
  /\ stack[1].commands = <<IF_ID, ELIF_ID>>
  /\ status' = "parsing"
  /\ Len(stack') = 1

(* C17: a name undefined before an if/elif/else chain and assigned in the  *)
(* body of each of its three branches is not in `identifiers` once the     *)
(* chain is parsed.                                                        *)
C17_HiddenAfterChain ==
  [][ChainReturns =>
       \A y \in (stack[1].chain_assigned \cap Assigned) \ stack[1].chain_pre :
         y \notin streams'[Len(streams')].identifiers]_vars

(***************************************************************************)
(* Properties of the signature defaults, checked under SpecSignature.      *)
(***************************************************************************)
Earlier(k) == {input.args[j] : j \in 1..(k - 1)}

Defaults == IF output.done THEN {k \in 1..Len(output.log) : output.log[k].default # ""} ELSE {}

(* what every default is parsed with, and what the stream holds after it *)
DefaultScope ==
  \A k \in Defaults :
    LET e == output.log[k]
    IN /\ e.name = input.args[k]
       /\ e.visible = input.S.identifiers \cup {FunctionName} \cup Earlier(k)
       /\ e.after = input.S.identifiers
       /\ e.default \in Names \cup {FunctionName} => (e.ok <=> e.default \in e.visible)

(* C18, as stated: the default of the k-th argument is parsed with the     *)
(* outer identifiers, the function name and the arguments 1..k-1; the      *)
(* argument's own name resolves in its own default only if it is an outer  *)
(* identifier or the function name; after the default the identifiers are  *)
(* the outer set again.                                                    *)
C18_Original ==
  /\ DefaultScope
  /\ \A k \in Defaults :
       (output.log[k].default = output.log[k].name /\ output.log[k].ok) =>
         output.log[k].name \in input.S.identifiers \cup {FunctionName}

(* C18, corrected: the same, where the own name of an argument that no     *)
(* earlier argument shares resolves in its own default iff it is an outer  *)
(* identifier or the function name; a name an earlier argument has is      *)
(* visible as that argument.                                               *)
C18_SignatureDefaultScope ==
  /\ DefaultScope
  /\ \A k \in Defaults :
       output.log[k].default = output.log[k].name =>
         (output.log[k].ok <=>
            output.log[k].name \in input.S.identifiers \cup {FunctionName} \cup Earlier(k))

C18_Witness ==
  /\ output.done
  /\ output.ok
  /\ input.S.identifiers = {}
  /\ input.args = <<NameList[1], NameList[2], NameList[1]>>
  /\ input.defaults = <<FunctionName, NameList[1], NameList[2]>>
  /\ output.log[3].visible = {FunctionName, NameList[1], NameList[2]}
  /\ output.S.identifiers = {FunctionName}

(***************************************************************************)
(* Properties of the repeated lowering, checked under SpecLowerTwice.      *)
(***************************************************************************)
HasElif(commands) == \E p \in 1..Len(commands) : commands[p].identifier = ELIF_ID

(* C19: the lowering of the commands of a root it returned succeeds and    *)
(* returns equal commands, and a root without elif that it accepts is      *)
(* returned as it was.                                                     *)
C19_LoweringIdempotent ==
  /\ Relowered => (output.again.ok /\ output.again.commands = output.commands)
  /\ (output.done /\ output.ok /\ ~HasElif(input)) => output.commands = input

C19_Witness ==
  /\ Relowered
  /\ [p \in 1..Len(input) |-> input[p].identifier] = <<IF_ID, ELIF_ID, ELSE_ID, OTHER_ID>>
  /\ Len(output.commands) = 3
  /\ output.commands # input
  /\ output.again.commands = output.commands

(***************************************************************************)
(* Properties of the del target, checked under SpecDel.                    *)
(***************************************************************************)
(* the kind of expression the text is, from the way it was built *)
ExpressionKind ==
  IF input.shape = "unary" THEN "UnaryExpr"
  ELSE IF input.shape = "binary" THEN "BinaryExpr"
  ELSE IF input.kinds = <<>> THEN (IF input.atom \in Names THEN "Identifier" ELSE "Value")
  ELSE IF Last(input.kinds) = "attribute" THEN "Attribute"
  ELSE IF Last(input.kinds) = "lookup" THEN "Lookup"
  ELSE "Call"

TargetKind(kind) ==
  IF kind = "Identifier" THEN "TargetIdentifier"
  ELSE IF kind = "Attribute" THEN "TargetAttribute"
  ELSE IF kind = "Lookup" THEN "TargetItem"
  ELSE "none"

(* the expression of the text is parsed: its only name is defined *)
Parses == input.atom \in Names => input.atom \in input.S.identifiers

(* C20: when the expression parses, parse_del_target returns a             *)
(* TargetIdentifier, TargetAttribute or TargetItem with the fields of the  *)
(* expression exactly when the expression is an Identifier, Attribute or   *)
(* Lookup, and for every other kind it raises "Can only delete variables,  *)
(* attributes, or subscripted items."; when the expression fails, its      *)
(* error is raised.                                                        *)
C20_DelTarget ==
  output.done =>
    LET e == Expression(input.S, input.text, 1)
    IN /\ e.ok <=> Parses
       /\ e.ok => e.node.type = ExpressionKind
       /\ (e.ok /\ TargetKind(e.node.type) # "none") =>
            /\ output.ok
            /\ output.node.type = TargetKind(e.node.type)
            /\ output.node.value = e.node.value
            /\ output.node.args = e.node.args
            /\ output.i = e.i
       /\ (e.ok /\ TargetKind(e.node.type) = "none") =>
            (~output.ok /\ output.err = DelTargetMessage)
       /\ ~e.ok => (~output.ok /\ output.err = e.err)

C20_Witness ==
  /\ output.done
  /\ output.ok
  /\ input.text = <<NameList[1], "(", ")", "[", "0", "]">>
  /\ output.node = AstTargetItem(AstCall(AstIdentifier(NameList[1]), <<>>), <<AstValue("0")>>)

(***************************************************************************)
(* Properties of the interpolation, checked under SpecInterpolation.       *)
(***************************************************************************)
FirstParser == IF input.fallback THEN "original" ELSE "interpolation"

SecondParser == IF input.fallback THEN "interpolation" ELSE "original"

(* C21: two alternatives at most are tried, interpolation then the host    *)
(* parser without fallback and the host parser then interpolation with     *)
(* it; the second is tried only after the first failed, from the index the *)
(* first started at; the result is that of the first that succeeds, and no *)
(* parse succeeds otherwise.  An interpolation that succeeds took the      *)
(* unpack token when one is configured, and took the prefix only when the  *)
(* token was there.                                                        *)
C21_InterpolationOrder ==
  LET a == output.attempts
  IN /\ Len(a) <= 2
     /\ Len(a) >= 1 => (a[1].parser = FirstParser /\ a[1].from = 1)
     /\ Len(a) = 2 => (~a[1].ok /\ a[2].parser = SecondParser /\ a[2].from = a[1].from)
     /\ output.phase = "returned" =>
          /\ Last(a).ok
          /\ output.node = Alternative(Last(a).parser, input, 1).node
          /\ output.index = Last(a).i
     /\ output.phase = "raised" => (Len(a) = 2 /\ ~a[1].ok /\ ~a[2].ok /\ ~output.ok)
     /\ (output.phase = "returned" /\ Last(a).parser = "interpolation") =>
          /\ input.unpack # "" =>
               (output.node.value[2] = input.unpack
                /\ TokenAt(input.toks, AfterPrefix(input, 1)) = input.unpack)
          /\ output.node.value[1] # "" <=>
               (input.prefix # "" /\ TokenAt(input.toks, 1) = input.prefix)

C21_Witness ==
  /\ output.phase = "returned"
  /\ input.fallback
  /\ input.unpack = "**"
  /\ input.prefix = "-"
  /\ input.toks = <<"**", NameList[1]>>
  /\ Len(output.attempts) = 2
  /\ output.attempts[2].parser = "interpolation"
  /\ output.node.value = <<"", "**">>

(***************************************************************************)
(* Mask restore, checked under Spec.                                       *)
(***************************************************************************)
MaskingKinds == {"elif_condition", "elif_block", "else_block"}

(* a BranchScopeManager with mask=true finishes: its parser returned or an *)
(* exception leaves it                                                     *)
ManagerFinishes ==
  /\ Depth > 1
  /\ Top.kind \in MaskingKinds
  /\ Len(stack') = Depth - 1

(* C22: when a masking BranchScopeManager finishes, by return or by raise, *)
(* the names of its mask are in `identifiers`, the storage entries it took *)
(* out are in `identifiers_storage` with their class, the names the inner  *)
(* parser added are kept, and `branch_scope` is the value read on entry,   *)
(* or the snapshot of `identifiers` taken at exit when update_after is set.*)
C22_MaskRestored ==
  [][ManagerFinishes =>
       LET after == streams'[Len(streams')]
       IN /\ Len(streams') = Len(streams)
          /\ Top.mask \subseteq after.identifiers
          /\ Cur.identifiers \subseteq after.identifiers
          /\ after.identifiers = Cur.identifiers \cup Top.mask
          /\ \A n \in DOMAIN Top.mask_storage :
               /\ n \in DOMAIN after.identifiers_storage
               /\ after.identifiers_storage[n] = Top.mask_storage[n]
          /\ \A n \in DOMAIN Cur.identifiers_storage : n \in DOMAIN after.identifiers_storage
          /\ after.branch_scope = IF Top.kind = "elif_condition" THEN Cur.identifiers
                                  ELSE Top.branch_scope]_vars

(* the condition of an elif read the name the if body introduced, which    *)
(* the mask hid; the exception left the manager and the name is back       *)
C22_Witness ==
  /\ status = "raising"
  /\ Depth = 1
  /\ ev.op = "propagate"
  /\ ev.err = UndefinedIdentifier
  /\ ev.text = <<NameList[2]>>
  /\ ev.targets = {NameList[2]}
  /\ stack[1].commands = <<"statement", IF_ID>>
  /\ stack[1].chain_intro = {NameList[2]}
  /\ Cur.identifiers = {NameList[1], NameList[2]}
  /\ NameList[2] \in DOMAIN Cur.identifiers_storage
  /\ Cur.branch_scope = {NameList[1]}

(***************************************************************************)
(* Properties of the function scope, checked under SpecFunction.           *)
(***************************************************************************)
Parameters == {input.args[k] : k \in 1..Len(input.args)}

Captured == output.phase \in {"captured", "body", "raised"}

InBody == output.phase \in {"body", "raised"}

(* the identifiers of the enclosing scope when the function root is parsed *)
OuterAtRoot == input.S.identifiers \cup {FunctionName}

(* C23: the snapshot holds the outer identifiers united with the outer     *)
(* pending identifiers, and empty storage, pending tables and              *)
(* branch_scope; the body starts with the parameters as the only storage   *)
(* entries, all "local"; as its first command, reading an outer name is    *)
(* accepted, and an augmented assignment to a name is accepted iff the     *)
(* name is visible and has a storage entry, which an outer name that is no *)
(* parameter has only after a global or nonlocal declaration in the body.  *)
C23_FreshFunctionScope ==
  /\ Captured =>
       /\ output.snapshot.identifiers = OuterAtRoot \cup Parameters
       /\ output.snapshot.identifiers_storage = EmptyDict
       /\ output.snapshot.pending_identifiers = {}
       /\ output.snapshot.pending_identifiers_storage = EmptyDict
       /\ output.snapshot.branch_scope = {}
  /\ (InBody /\ output.n = 0) =>
       /\ output.body.identifiers_storage = [n \in Parameters |-> "local"]
       /\ output.body.identifiers = OuterAtRoot \cup Parameters
       /\ output.body.function
  /\ (InBody /\ output.op = "statement" /\ Len(output.text) = 1) =>
       (output.ok <=> output.text[1] \in output.before.identifiers)
  /\ (InBody /\ output.op = "statement" /\ Len(output.text) = 3 /\ output.text[2] = "+=") =>
       /\ output.ok <=> /\ output.text[1] \in output.before.identifiers
                        /\ output.text[1] \in DOMAIN output.before.identifiers_storage
       /\ (output.n = 1 /\ output.text[1] \notin Parameters) => ~output.ok

C23_Witness ==
  /\ InBody
  /\ input.args = <<>>
  /\ NameList[1] \in input.S.identifiers
  /\ output.n = 2
  /\ output.before.identifiers_storage = [n \in {NameList[1]} |-> "global"]
  /\ output.op = "statement"
  /\ output.text = <<NameList[1], "+=", "1">>
  /\ output.ok

(* C27: from the signature on, the identifiers of the enclosing scope are  *)
(* those before the def plus the function name and its identifiers_storage *)
(* is the one before the def; once the function root is captured the       *)
(* enclosing pending tables are empty; parameters and the names the body   *)
(* assigns, imports or declares reach neither enclosing table.             *)
C27_FunctionScopeIsolation ==
  /\ output.phase # "def" =>
       /\ output.outer.identifiers = input.S.identifiers \cup {FunctionName}
       /\ output.outer.identifiers_storage = input.S.identifiers_storage
       /\ FunctionName \notin DOMAIN output.outer.identifiers_storage
  /\ output.phase = "signature" => output.outer.pending_identifiers = Parameters
  /\ Captured =>
       /\ output.outer.pending_identifiers = {}
       /\ output.outer.pending_identifiers_storage = EmptyDict
  /\ InBody =>
       \A n \in (Parameters \cup output.body.identifiers
                            \cup DOMAIN output.body.identifiers_storage) :
          /\ n \in output.outer.identifiers => n \in OuterAtRoot
          /\ n \in DOMAIN output.outer.identifiers_storage =>
               /\ n \in DOMAIN input.S.identifiers_storage
               /\ output.outer.identifiers_storage[n] = input.S.identifiers_storage[n]

C27_Witness ==
  /\ output.phase = "body"
  /\ input.S.identifiers = {}
  /\ input.args = <<NameList[1]>>
  /\ output.n = 2
  /\ output.op = "import"
  /\ NameList[2] \in output.body.identifiers
  /\ output.body.identifiers_storage = [n \in {NameList[1], NameList[2]} |-> "local"]
  /\ output.outer.identifiers = {FunctionName}
  /\ output.outer.identifiers_storage = EmptyDict

(***************************************************************************)
(* Properties of the error handler, checked under SpecHandler.             *)
(***************************************************************************)
(* positions, in the list of all alternatives, of the UndefinedIdentifier  *)
(* alternatives whose end position plus one is at or after the error       *)
Hints ==
  {k \in 1..Len(input.exc.alternatives) :
     /\ input.exc.alternatives[k].class = UndefinedIdentifier
     /\ input.exc.alternatives[k].end + 1 >= input.exc.pos}

FirstHint == CHOOSE k \in Hints : \A j \in Hints : k <= j

(* C24: a node is returned as it is; an UndefinedIdentifier is raised      *)
(* unchanged; any other syntax error is replaced by the first recorded     *)
(* UndefinedIdentifier alternative whose end position plus one is at or    *)
(* after the position of the error, with the message of the error appended *)
(* to its notes, and is raised unchanged when there is none; a failed      *)
(* parse never becomes a success.                                          *)
C24_UndefinedIdentifierHint ==
  output.done =>
    /\ output.ok <=> input.ok
    /\ input.ok => output.node = input.node
    /\ (~input.ok /\ input.exc.class = UndefinedIdentifier) => output.exc = input.exc
    /\ (~input.ok /\ input.exc.class # UndefinedIdentifier /\ Hints = {}) =>
         output.exc = input.exc
    /\ (~input.ok /\ input.exc.class # UndefinedIdentifier /\ Hints # {}) =>
         LET alt == input.exc.alternatives[FirstHint]
         IN /\ output.exc.class = UndefinedIdentifier
            /\ output.exc.notes = Append(alt.notes, input.exc.message)
            /\ output.exc = [alt EXCEPT !.notes = output.exc.notes]

C24_Witness ==
  /\ output.done
  /\ ~output.ok
  /\ input.exc.class = InvalidSyntax
  /\ input.exc.pos = 2
  /\ Len(input.exc.alternatives) = 2
  /\ input.exc.alternatives[1].class = UndefinedIdentifier
  /\ input.exc.alternatives[1].end = 0
  /\ input.exc.alternatives[2].class = UndefinedIdentifier
  /\ input.exc.alternatives[2].end = 1
  /\ input.exc.alternatives[2].notes = <<"earlier note">>
  /\ output.exc.end = 1
  /\ output.exc.notes = <<"earlier note", "Expected something else.">>

(***************************************************************************)
(* Properties of the postfix chain, checked under SpecPrimary.             *)
(***************************************************************************)
HasEmptySubscript ==
  \E k \in 1..(Len(input.toks) - 1) : input.toks[k] = "[" /\ input.toks[k + 1] = "]"

(* C25: a primary expression followed by an empty `[]` is rejected: the    *)
(* parse of a text holding `[` directly followed by `]` does not succeed.  *)
C25_EmptySubscriptRejected ==
  (output.done /\ HasEmptySubscript) => ~output.r.ok

(* what the parser returns for `a[]` with `a` defined *)
C25_EmptySubscriptIsSlice ==
  (output.done /\ input.toks = <<NameList[1], "[", "]">> /\ NameList[1] \in input.S.identifiers)
    => /\ output.r.ok
       /\ output.r.node = AstLookup(AstIdentifier(NameList[1]), <<AstSlice>>)
       /\ output.r.i = 4

(***************************************************************************)
(* Properties of the storage classes, checked under SpecBranch.            *)
(***************************************************************************)
(* C26: a name that identifiers_storage maps to a storage class is not     *)
(* mapped to another class after any step: assignment, import, function    *)
(* definition, global or nonlocal declaration, entry and exit of the       *)
(* branch managers.                                                        *)
C26_StorageClassStable ==
  [][\A n \in DOMAIN output.S.identifiers_storage :
        n \in DOMAIN output'.S.identifiers_storage =>
          output'.S.identifiers_storage[n] = output.S.identifiers_storage[n]]_vars

(* the same holds of every step that is not the exit of a masking manager  *)
C26_StableOutsideRestore ==
  [][~(output.phase = "else_block" /\ output'.phase \in {"after", "raised"}) =>
       \A n \in DOMAIN output.S.identifiers_storage :
          n \in DOMAIN output'.S.identifiers_storage =>
            output'.S.identifiers_storage[n] = output.S.identifiers_storage[n]]_vars

====
